---- MODULE Spec2Model ----
\* A model of the BradCAD drawing surface: the Pinia store (cad-store.js), the
\* canvas component's event handlers and the snapping helpers of drawing-utils.js.
EXTENDS Integers, Sequences, FiniteSets, TLC

\* ---------------------------------------------------------------------------
\* Program constants and model bounds
\* ---------------------------------------------------------------------------

\* cad-store.js: const MAX_HISTORY_SIZE = 50
MAX_HISTORY_SIZE == 50

\* Bound: saveState calls explored from a fresh history.
MaxPushes == 60

\* Bound: saveState calls that discard a redo branch, explored from a fresh history.
MaxDiscards == 0

\* Bound: store operations applied to each enumerated history.
MaxOps == 3

\* Bound: vector objects committed to the scene by the event handlers.
MaxObjects == 1

\* Bound: points of the polyline under construction.
MaxPolylinePoints == 3

\* Bound: canvas snapshots taken by the component.
MaxSnapshots == 2

\* ---------------------------------------------------------------------------
\* Values
\* ---------------------------------------------------------------------------

\* JavaScript null / a present value, as a sequence of length 0 / 1.
None == <<>>
Some(v) == <<v>>

Max(a, b) == IF a >= b THEN a ELSE b
Min(a, b) == IF a <= b THEN a ELSE b

\* Array.prototype.slice(0, end) for end >= 0.
Slice0(arr, end) == SubSeq(arr, 1, Min(end, Len(arr)))

\* arr[k] for a 0-based k; None when k is out of range (undefined is falsy, as null).
At(arr, k) == IF (k + 1) \in DOMAIN arr THEN Some(arr[k + 1]) ELSE None

\* ---------------------------------------------------------------------------
\* Numbers: JavaScript arithmetic on coordinates, carried out exactly on
\* fractions [n, d] in lowest terms with d > 0
\* ---------------------------------------------------------------------------

Abs(a) == IF a < 0 THEN 0 - a ELSE a

RECURSIVE GCD(_, _)
GCD(a, b) == IF b = 0 THEN a ELSE GCD(b, a % b)

Frac(n, d) ==
  IF d = 1 THEN [n |-> n, d |-> 1]
  ELSE LET g == GCD(Abs(n), Abs(d))
           sgn == IF d < 0 THEN 0 - 1 ELSE 1
       IN  [n |-> (sgn * n) \div g, d |-> (sgn * d) \div g]

Num(k) == [n |-> k, d |-> 1]

Plus(a, b) == Frac(a.n * b.d + b.n * a.d, a.d * b.d)
Minus(a, b) == Frac(a.n * b.d - b.n * a.d, a.d * b.d)
Times(a, b) == Frac(a.n * b.n, a.d * b.d)
Over(a, b) == Frac(a.n * b.d, a.d * b.n)
LessEq(a, b) == a.n * b.d <= b.n * a.d

\* Math.round: the nearest integer, halves towards +Infinity.
Round(a) == (2 * a.n + a.d) \div (2 * a.d)

Pt(x, y) == [x |-> x, y |-> y]

VARIABLES
  \* store (cad-store.js): history
  history,        \* history: sequence of snapshot identities
  historyIndex,   \* historyIndex (0-based, -1 when empty)
  \* store: tool, scene and construction state
  currentTool,
  vectorObjects,
  polylinePoints,
  isDrawing,
  dimensionStart,
  dimensionSecondPoint,
  dimensionLinePosition,
  \* store: grid and snapping settings, stroke settings
  gridSize,
  snapToGrid,
  snapToPoints,
  snapToLines,
  snapTolerance,
  lineColor,
  lineWidth,
  \* store: view transform
  zoomLevel,
  panOffset,
  \* component (CADCanvas)
  startPoint,     \* drawingState.startPoint
  currentCommand, \* currentCommand: None or Some(prompt kind)
  commandCallback,\* commandCallback: None or Some(pending continuation)
  isPanning,      \* panState.isPanning
  lastMousePos,   \* panState.lastMousePos (raw canvas position)
  \* pointer of the browser: where a physical click stands
  phase,          \* "idle", "down" (button held) or "released" (click pending)
  heldButton,     \* button of the physical click under way
  pointerAt,      \* raw canvas position of the physical click under way
  gesture,        \* None, or Some(what the store held at mousedown), while undisturbed
  eventCount,     \* number of input events handled, where a run is cut to a length
  \* bookkeeping
  snapCount,      \* number of ImageData objects created so far
  ret,            \* return value of the last undo()/redo(): None or Some(snapshot)
  lastOp,         \* name of the last operation
  discards,       \* number of saveState calls that dropped a redo branch
  trace,          \* the store operations applied to an enumerated history, in order
  snapIn,         \* cursor handed to the last getSnappedPosition probe
  snapOut,        \* its result: None or Some([position, type])
  snapPrev,       \* the result before it, when the probe resolved a result again
  worldIn,        \* world point handed to the drawing mapping
  screenOut,      \* its screen position: None or Some(point)
  worldBack,      \* the world position of that screen position: None or Some(point)
  wheelCount,     \* number of zoom events handled (wheel notches, zoom buttons)
  \* rendering
  canvas,         \* what the main canvas shows: the draw calls of the last redraw
  savedImage,     \* None, or Some(canvas image handed to the last saveState)
  \* mounting
  ctx,            \* None, or Some("2d"): the 2D context onMounted obtained
  errorsShown     \* number of showErrorDialog calls of the component

histVars == <<history, historyIndex, snapCount, ret, discards, trace>>
sceneVars == <<currentTool, vectorObjects, polylinePoints, isDrawing,
               dimensionStart, dimensionSecondPoint, dimensionLinePosition>>
configVars == <<gridSize, snapToGrid, snapToPoints, snapToLines, snapTolerance,
                lineColor, lineWidth>>
viewVars == <<zoomLevel, panOffset>>
compVars == <<startPoint, currentCommand, commandCallback, isPanning, lastMousePos>>
pointerVars == <<phase, heldButton, pointerAt, gesture, eventCount>>
mapVars == <<worldIn, screenOut, worldBack, wheelCount>>
probeVars == <<snapIn, snapOut, snapPrev, mapVars>>
mountVars == <<ctx, errorsShown>>
renderVars == <<canvas, savedImage, mountVars>>
vars == <<histVars, sceneVars, configVars, viewVars, compVars, pointerVars,
          probeVars, renderVars, lastOp>>

\* ---------------------------------------------------------------------------
\* Store: history (cad-store.js)
\* ---------------------------------------------------------------------------

canUndoAtZero(h, i) == i >= 0
canUndo(h, i) == i > 0

canRedoAtLast(h, i) == i < Len(h)
canRedo(h, i) == i < Len(h) - 1

\* saveState that evicts only above the capacity.
saveStateLateEvict(h, i, imageData) ==
  LET full == Len(h) > MAX_HISTORY_SIZE
      h1 == IF full THEN Tail(h) ELSE h
      i1 == IF full THEN Max(0, i - 1) ELSE i
      h2 == Slice0(h1, i1 + 1)
  IN  [history |-> Append(h2, imageData), historyIndex |-> i1 + 1]

\* saveState(imageData): the new history and index.
saveState(h, i, imageData) ==
  LET full == Len(h) >= MAX_HISTORY_SIZE
      h1 == IF full THEN Tail(h) ELSE h
      i1 == IF full THEN Max(0, i - 1) ELSE i
      h2 == Slice0(h1, i1 + 1)
  IN  [history |-> Append(h2, imageData), historyIndex |-> i1 + 1]

\* undo that returns the entry it leaves.
undoReturnsOld(h, i) ==
  IF canUndo(h, i)
    THEN [historyIndex |-> i - 1, ret |-> At(h, i)]
    ELSE [historyIndex |-> i, ret |-> None]

\* undo(): the new index and the returned snapshot.
undo(h, i) ==
  IF canUndo(h, i)
    THEN [historyIndex |-> i - 1, ret |-> At(h, i - 1)]
    ELSE [historyIndex |-> i, ret |-> None]

\* redo(): the new index and the returned snapshot.
redo(h, i) ==
  IF canRedo(h, i)
    THEN [historyIndex |-> i + 1, ret |-> At(h, i + 1)]
    ELSE [historyIndex |-> i, ret |-> None]

\* ---------------------------------------------------------------------------
\* Snapping helpers (drawing-utils.js)
\* ---------------------------------------------------------------------------

\* snapToTransformedGrid that rounds in world coordinates, ignoring pan and zoom.
snapToWorldGrid(point, size, pan, zoom) ==
  Pt(Num(Round(Over(point.x, Num(size))) * size),
     Num(Round(Over(point.y, Num(size))) * size))

\* snapToTransformedGrid(point, gridSize, panOffset, zoomLevel)
snapToTransformedGrid(point, size, pan, zoom) ==
  LET screenGridSize == Times(Num(size), zoom)
      screenX == Plus(Times(point.x, zoom), pan.x)
      screenY == Plus(Times(point.y, zoom), pan.y)
      snappedScreenX == Times(Num(Round(Over(screenX, screenGridSize))), screenGridSize)
      snappedScreenY == Times(Num(Round(Over(screenY, screenGridSize))), screenGridSize)
  IN  Pt(Over(Minus(snappedScreenX, pan.x), zoom),
         Over(Minus(snappedScreenY, pan.y), zoom))

\* calculateDistance(point1, point2), squared.
calculateDistanceSq(point1, point2) ==
  LET dx == Minus(point2.x, point1.x)
      dy == Minus(point2.y, point1.y)
  IN  Plus(Times(dx, dx), Times(dy, dy))

\* distance <= tolerance, for a tolerance >= 0.
WithinTolerance(point1, point2, tolerance) ==
  LessEq(calculateDistanceSq(point1, point2), Num(tolerance * tolerance))

\* snapToPoints(point, existingPoints, tolerance): the first point within the
\* tolerance, in iteration order.
RECURSIVE snapToPointsIn(_, _, _)
snapToPointsIn(point, existingPoints, tolerance) ==
  IF existingPoints = <<>> THEN None
  ELSE IF WithinTolerance(point, Head(existingPoints), tolerance)
         THEN Some(Head(existingPoints))
         ELSE snapToPointsIn(point, Tail(existingPoints), tolerance)

\* A snapToLine that projects on the whole line, not on the segment.
snapToLineUnclamped(point, lineStart, lineEnd, tolerance) ==
  LET A == Minus(point.x, lineStart.x)
      B == Minus(point.y, lineStart.y)
      C == Minus(lineEnd.x, lineStart.x)
      D == Minus(lineEnd.y, lineStart.y)
      dot == Plus(Times(A, C), Times(B, D))
      lenSq == Plus(Times(C, C), Times(D, D))
  IN  IF lenSq = Num(0) THEN None
      ELSE LET raw == Over(dot, lenSq)
               param == raw
               snapped == Pt(Plus(lineStart.x, Times(param, C)),
                             Plus(lineStart.y, Times(param, D)))
           IN  IF WithinTolerance(point, snapped, tolerance) THEN Some(snapped) ELSE None
\* snapToLine(point, lineStart, lineEnd, tolerance)
snapToLine(point, lineStart, lineEnd, tolerance) ==
  LET A == Minus(point.x, lineStart.x)
      B == Minus(point.y, lineStart.y)
      C == Minus(lineEnd.x, lineStart.x)
      D == Minus(lineEnd.y, lineStart.y)
      dot == Plus(Times(A, C), Times(B, D))
      lenSq == Plus(Times(C, C), Times(D, D))
  IN  IF lenSq = Num(0) THEN None
      ELSE LET raw == Over(dot, lenSq)
               param == IF LessEq(raw, Num(0)) THEN Num(0)
                        ELSE IF LessEq(Num(1), raw) THEN Num(1) ELSE raw
               snapped == Pt(Plus(lineStart.x, Times(param, C)),
                             Plus(lineStart.y, Times(param, D)))
           IN  IF WithinTolerance(point, snapped, tolerance) THEN Some(snapped) ELSE None

\* snapToLines(point, lines, tolerance): the first line that accepts.
RECURSIVE snapToLinesIn(_, _, _)
snapToLinesIn(point, lines, tolerance) ==
  IF lines = <<>> THEN None
  ELSE LET hit == snapToLine(point, Head(lines).start, Head(lines).end, tolerance)
       IN  IF hit # None THEN hit ELSE snapToLinesIn(point, Tail(lines), tolerance)

\* calculateMidpoint(start, end)
calculateMidpoint(start, end) ==
  Pt(Over(Plus(start.x, end.x), Num(2)), Over(Plus(start.y, end.y), Num(2)))

\* The four corners of a rectangle object, in the order the code lists them.
rectCorners(obj) ==
  << Pt(obj.x, obj.y),
     Pt(Plus(obj.x, obj.width), obj.y),
     Pt(Plus(obj.x, obj.width), Plus(obj.y, obj.height)),
     Pt(obj.x, Plus(obj.y, obj.height)) >>

\* getAllSnapPoints(vectorObjects): the candidates of each category.
RECURSIVE getAllSnapPoints(_)
getAllSnapPoints(objs) ==
  IF objs = <<>>
    THEN [endpoints |-> <<>>, midpoints |-> <<>>, centers |-> <<>>, corners |-> <<>>]
    ELSE LET obj == objs[Len(objs)]
             acc == getAllSnapPoints(SubSeq(objs, 1, Len(objs) - 1))
         IN  IF obj.type = "line"
               THEN [acc EXCEPT !.endpoints = @ \o <<obj.start, obj.end>>,
                                !.midpoints = Append(@, calculateMidpoint(obj.start, obj.end))]
             ELSE IF obj.type = "rectangle"
               THEN [acc EXCEPT !.corners = @ \o rectCorners(obj),
                                !.centers = Append(@,
                                   Pt(Plus(obj.x, Over(obj.width, Num(2))),
                                      Plus(obj.y, Over(obj.height, Num(2)))))]
             ELSE IF obj.type = "circle"
               THEN [acc EXCEPT !.centers = Append(@, Pt(obj.x, obj.y))]
             ELSE acc

\* ---------------------------------------------------------------------------
\* Store getters used for snapping (cad-store.js)
\* ---------------------------------------------------------------------------

\* The segments of consecutive active polyline points.
polylineSegments(points) ==
  IF Len(points) < 2 THEN <<>>
  ELSE [k \in 1..(Len(points) - 1) |-> [start |-> points[k], end |-> points[k + 1]]]

\* The lines one vector object contributes to existingLines.
objectLines(obj) ==
  IF obj.type = "line" THEN << [start |-> obj.start, end |-> obj.end] >>
  ELSE IF obj.type = "rectangle"
    THEN LET c == rectCorners(obj)
         IN  << [start |-> c[1], end |-> c[2]], [start |-> c[2], end |-> c[3]],
                [start |-> c[3], end |-> c[4]], [start |-> c[4], end |-> c[1]] >>
  ELSE <<>>

RECURSIVE objectsLines(_)
objectsLines(objs) ==
  IF objs = <<>> THEN <<>> ELSE objectLines(Head(objs)) \o objectsLines(Tail(objs))

\* existingLines (computed)
existingLines == polylineSegments(polylinePoints) \o objectsLines(vectorObjects)

\* ---------------------------------------------------------------------------
\* Component: snapping (CADCanvas)
\* ---------------------------------------------------------------------------

\* The endpoint candidates: object endpoints, then the active polyline points,
\* then the dimension points that are set.
endpointCandidates ==
  getAllSnapPoints(vectorObjects).endpoints \o polylinePoints
    \o dimensionStart \o dimensionSecondPoint

\* A getSnappedPosition whose line check does not look at what was found before.
getSnappedPositionLineUnguarded(pos) ==
  LET all == getAllSnapPoints(vectorObjects)
      gridSnapped == snapToTransformedGrid(pos, gridSize, panOffset, zoomLevel)
      \* grid
      s1 == IF snapToGrid /\ (gridSnapped.x # pos.x \/ gridSnapped.y # pos.y)
              THEN [position |-> gridSnapped, type |-> Some("grid")]
              ELSE [position |-> pos, type |-> None]
      \* endpoints: checked whatever the grid found
      endpointSnap == snapToPointsIn(pos, endpointCandidates, snapTolerance)
      s2 == IF snapToPoints /\ endpointSnap # None
              THEN [position |-> endpointSnap[1], type |-> Some("endpoint")]
              ELSE s1
      midpointSnap == snapToPointsIn(pos, all.midpoints, snapTolerance)
      s3 == IF snapToPoints /\ s2.type = None /\ midpointSnap # None
              THEN [position |-> midpointSnap[1], type |-> Some("midpoint")]
              ELSE s2
      centerSnap == snapToPointsIn(pos, all.centers, snapTolerance)
      s4 == IF snapToPoints /\ s3.type = None /\ centerSnap # None
              THEN [position |-> centerSnap[1], type |-> Some("center")]
              ELSE s3
      cornerSnap == snapToPointsIn(pos, all.corners, snapTolerance)
      s5 == IF snapToPoints /\ s4.type = None /\ cornerSnap # None
              THEN [position |-> cornerSnap[1], type |-> Some("corner")]
              ELSE s4
      lineSnap == snapToLinesIn(pos, existingLines, snapTolerance)
  IN  IF snapToLines /\ lineSnap # None
        THEN [position |-> lineSnap[1], type |-> Some("line")]
        ELSE s5
\* getSnappedPosition(pos): the snapped position and the kind of snap.
getSnappedPosition(pos) ==
  LET all == getAllSnapPoints(vectorObjects)
      gridSnapped == snapToTransformedGrid(pos, gridSize, panOffset, zoomLevel)
      \* grid
      s1 == IF snapToGrid /\ (gridSnapped.x # pos.x \/ gridSnapped.y # pos.y)
              THEN [position |-> gridSnapped, type |-> Some("grid")]
              ELSE [position |-> pos, type |-> None]
      \* endpoints: checked whatever the grid found
      endpointSnap == snapToPointsIn(pos, endpointCandidates, snapTolerance)
      s2 == IF snapToPoints /\ endpointSnap # None
              THEN [position |-> endpointSnap[1], type |-> Some("endpoint")]
              ELSE s1
      midpointSnap == snapToPointsIn(pos, all.midpoints, snapTolerance)
      s3 == IF snapToPoints /\ s2.type = None /\ midpointSnap # None
              THEN [position |-> midpointSnap[1], type |-> Some("midpoint")]
              ELSE s2
      centerSnap == snapToPointsIn(pos, all.centers, snapTolerance)
      s4 == IF snapToPoints /\ s3.type = None /\ centerSnap # None
              THEN [position |-> centerSnap[1], type |-> Some("center")]
              ELSE s3
      cornerSnap == snapToPointsIn(pos, all.corners, snapTolerance)
      s5 == IF snapToPoints /\ s4.type = None /\ cornerSnap # None
              THEN [position |-> cornerSnap[1], type |-> Some("corner")]
              ELSE s4
      lineSnap == snapToLinesIn(pos, existingLines, snapTolerance)
  IN  IF snapToLines /\ s5.type = None /\ lineSnap # None
        THEN [position |-> lineSnap[1], type |-> Some("line")]
        ELSE s5

\* A screen-to-world mapping that divides before it subtracts the pan offset.
screenToWorldDividesFirst(screen) ==
  Pt(Minus(Over(screen.x, zoomLevel), panOffset.x),
     Minus(Over(screen.y, zoomLevel), panOffset.y))

\* The transform of getMousePos: (raw - panOffset) / zoomLevel on each axis.
screenToWorld(screen) ==
  Pt(Over(Minus(screen.x, panOffset.x), zoomLevel),
     Over(Minus(screen.y, panOffset.y), zoomLevel))

\* getMousePos(event, canvas): the world position of a raw canvas position.
getMousePos(raw) == screenToWorld(Pt(Num(raw.x), Num(raw.y)))

\* The transform of drawLineWithConstantWidth: world * zoomLevel + panOffset
\* on each axis.
worldToScreen(world) ==
  Pt(Plus(Times(world.x, zoomLevel), panOffset.x),
     Plus(Times(world.y, zoomLevel), panOffset.y))

\* ---------------------------------------------------------------------------
\* Drawing (canvas utilities, redrawCanvas)
\*
\* The main canvas is the sequence of draw calls made on it since it was last
\* cleared. Each draw call is recorded by what it paints, in screen
\* coordinates.
\* ---------------------------------------------------------------------------

\* x * zoomLevel + panOffset.x, y * zoomLevel + panOffset.y
toScreen(x, y, pan, zoom) ==
  Pt(Plus(Times(x, zoom), pan.x), Plus(Times(y, zoom), pan.y))

\* Math.round(Math.sqrt(q)) >= r, for q >= 0: r is 0 or (r - 1/2)^2 <= q.
roundedRootReaches(r, q) ==
  r = 0 \/ (2 * r - 1) * (2 * r - 1) * q.d <= 4 * q.n

\* The first power of two, from r on, that the rounded root does not reach.
RECURSIVE rootCeiling(_, _)
rootCeiling(r, q) ==
  IF roundedRootReaches(r, q) THEN rootCeiling(2 * r, q) ELSE r

\* The largest r in lo..(hi - 1) that the rounded root reaches.
RECURSIVE rootBetween(_, _, _)
rootBetween(lo, hi, q) ==
  IF hi - lo <= 1 THEN lo
  ELSE IF roundedRootReaches((lo + hi) \div 2, q)
    THEN rootBetween((lo + hi) \div 2, hi, q)
    ELSE rootBetween(lo, (lo + hi) \div 2, q)

\* Math.round(Math.sqrt(q)) for q >= 0.
MathRoundSqrt(q) == rootBetween(0, rootCeiling(1, q), q)

\* Math.pow(b.x - a.x, 2) + Math.pow(b.y - a.y, 2)
squaredDistance(a, b) ==
  Plus(Times(Minus(b.x, a.x), Minus(b.x, a.x)),
       Times(Minus(b.y, a.y), Minus(b.y, a.y)))

\* drawTransformedGrid(...): the lattice drawn, as its spacing and the view.
drawTransformedGrid(size, pan, zoom) ==
  [op |-> "grid", gridSize |-> size, panOffset |-> pan, zoomLevel |-> zoom]

drawLineWithConstantWidth(x1, y1, x2, y2, color, width, pan, zoom) ==
  [op |-> "line", from |-> toScreen(x1, y1, pan, zoom),
   to |-> toScreen(x2, y2, pan, zoom), color |-> color, lineWidth |-> width]

drawRectangleWithConstantWidth(x, y, width, height, color, lw, filled, pan, zoom) ==
  [op |-> "rect", at |-> toScreen(x, y, pan, zoom),
   width |-> Times(width, zoom), height |-> Times(height, zoom),
   color |-> color, lineWidth |-> lw, filled |-> filled]

\* Math.sqrt of the radius preview leaves an irrational radius; a circle is
\* recorded by the square of its screen radius.
drawCircleSquared(x, y, radiusSquared, color, lw, filled, pan, zoom) ==
  [op |-> "arc", at |-> toScreen(x, y, pan, zoom),
   radiusSquared |-> Times(radiusSquared, Times(zoom, zoom)),
   color |-> color, lineWidth |-> lw, filled |-> filled]

drawCircleWithConstantWidth(x, y, radius, color, lw, filled, pan, zoom) ==
  drawCircleSquared(x, y, Times(radius, radius), color, lw, filled, pan, zoom)

drawPolylineWithConstantWidth(points, color, width, pan, zoom) ==
  [op |-> "polyline",
   points |-> [i \in 1..Len(points) |-> toScreen(points[i].x, points[i].y, pan, zoom)],
   color |-> color, lineWidth |-> width]

drawPointWithConstantSize(x, y, color, size, pan, zoom) ==
  [op |-> "point", at |-> toScreen(x, y, pan, zoom), color |-> color, size |-> size]

\* The text of a dimension measured on the screen instead of in the world.
dimensionTextOnScreen(point1, point2, pan, zoom) ==
  [value |-> MathRoundSqrt(squaredDistance(toScreen(point1.x, point1.y, pan, zoom),
                                           toScreen(point2.x, point2.y, pan, zoom))),
   unit |-> "px"]

\* The text of drawAutoCADDimension: `${Math.round(distance)}px`.
dimensionText(point1, point2, pan, zoom) ==
  [value |-> MathRoundSqrt(squaredDistance(point1, point2)), unit |-> "px"]

\* drawAutoCADDimension(...): recorded by its three points on the screen and
\* its text; the extension lines and arrowheads follow from the points.
drawAutoCADDimension(point1, point2, dimensionLinePos, color, width, pan, zoom) ==
  [op |-> "dimension",
   p1 |-> toScreen(point1.x, point1.y, pan, zoom),
   p2 |-> toScreen(point2.x, point2.y, pan, zoom),
   textAt |-> toScreen(dimensionLinePos.x, dimensionLinePos.y, pan, zoom),
   text |-> dimensionText(point1, point2, pan, zoom),
   color |-> color, lineWidth |-> width]

\* showGrid of the store; toggleGrid is not among the modelled actions.
showGrid == TRUE

\* The draw call of redrawCanvas for one scene object: None for a type that
\* has no branch in its forEach.
drawObject(obj, pan, zoom) ==
  IF obj.type = "line"
    THEN Some(drawLineWithConstantWidth(obj.start.x, obj.start.y, obj.end.x, obj.end.y,
                                        obj.color, obj.lineWidth, pan, zoom))
  ELSE IF obj.type = "rectangle"
    THEN Some(drawRectangleWithConstantWidth(obj.x, obj.y, obj.width, obj.height,
                                             obj.color, obj.lineWidth, obj.filled,
                                             pan, zoom))
  ELSE IF obj.type = "circle"
    THEN Some(drawCircleWithConstantWidth(obj.x, obj.y, obj.radius, obj.color,
                                          obj.lineWidth, obj.filled, pan, zoom))
  ELSE IF obj.type = "dimension"
    THEN Some(drawAutoCADDimension(obj.point1, obj.point2, obj.dimensionLinePos,
                                   obj.color, obj.lineWidth, pan, zoom))
  ELSE None

\* vectorObjects.forEach(obj => ...) of redrawCanvas.
RECURSIVE drawObjects(_, _, _)
drawObjects(objects, pan, zoom) ==
  IF objects = <<>>
    THEN <<>>
    ELSE drawObject(Head(objects), pan, zoom) \o drawObjects(Tail(objects), pan, zoom)

\* redrawCanvas() on a store in the given state: what the main canvas shows
\* after it.
redrawCanvasOf(objects, points, size, color, width, pan, zoom) ==
  (IF showGrid THEN <<drawTransformedGrid(size, pan, zoom)>> ELSE <<>>)
  \o drawObjects(objects, pan, zoom)
  \o (IF Len(points) > 1
        THEN <<drawPolylineWithConstantWidth(points, color, width, pan, zoom)>>
        ELSE <<>>)
  \o [i \in 1..Len(points) |->
        drawPointWithConstantSize(points[i].x, points[i].y, color, 3, pan, zoom)]

\* redrawCanvas() now.
redrawCanvas ==
  redrawCanvasOf(vectorObjects, polylinePoints, gridSize, lineColor, lineWidth,
                 panOffset, zoomLevel)

\* ---------------------------------------------------------------------------
\* Initial values (cad-store.js refs, CADCanvas refs)
\* ---------------------------------------------------------------------------

HistoryEmpty ==
  /\ history = <<>>
  /\ historyIndex = -1
  /\ snapCount = 0
  /\ ret = None
  /\ discards = 0
  /\ trace = <<>>

SceneEmpty ==
  /\ currentTool = "select"
  /\ vectorObjects = <<>>
  /\ polylinePoints = <<>>
  /\ isDrawing = FALSE
  /\ dimensionStart = None
  /\ dimensionSecondPoint = None
  /\ dimensionLinePosition = None

ConfigDefault ==
  /\ gridSize = 20
  /\ snapToGrid = TRUE
  /\ snapToPoints = TRUE
  /\ snapToLines = TRUE
  /\ snapTolerance = 10
  /\ lineColor = "#000000"
  /\ lineWidth = 2

ViewDefault ==
  /\ zoomLevel = Num(1)
  /\ panOffset = Pt(Num(0), Num(0))

ComponentIdle ==
  /\ startPoint = None
  /\ currentCommand = None
  /\ commandCallback = None
  /\ isPanning = FALSE
  /\ lastMousePos = Pt(0, 0)

PointerIdle ==
  /\ phase = "idle"
  /\ heldButton = 0
  /\ pointerAt = Pt(0, 0)
  /\ gesture = None
  /\ eventCount = 0

MapIdle ==
  /\ worldIn = Pt(Num(0), Num(0))
  /\ screenOut = None
  /\ worldBack = None
  /\ wheelCount = 0

\* The canvas after onMounted's redrawCanvas(); no saveState observed yet.
\* onMounted has obtained the 2D context and no error has been shown.
RenderIdle ==
  /\ canvas = redrawCanvas
  /\ savedImage = None
  /\ ctx = Some("2d")
  /\ errorsShown = 0

ProbeIdle ==
  /\ snapIn = Pt(Num(0), Num(0))
  /\ snapOut = None
  /\ snapPrev = None
  /\ MapIdle
  /\ RenderIdle

\* ---------------------------------------------------------------------------
\* Store-level actions on the history
\* ---------------------------------------------------------------------------

nonHistVars == <<sceneVars, configVars, viewVars, compVars, phase, heldButton,
                 pointerAt, gesture, probeVars>>

StoreSaveState ==
  LET r == saveState(history, historyIndex, snapCount + 1)
  IN  /\ history' = r.history
      /\ historyIndex' = r.historyIndex
      /\ snapCount' = snapCount + 1
      /\ discards' = IF canRedo(history, historyIndex) THEN discards + 1 ELSE discards
      /\ ret' = None
      /\ lastOp' = "saveState"
      /\ UNCHANGED nonHistVars

StoreUndo ==
  LET r == undo(history, historyIndex)
  IN  /\ historyIndex' = r.historyIndex
      /\ ret' = r.ret
      /\ lastOp' = "undo"
      /\ UNCHANGED <<history, snapCount, discards>>
      /\ UNCHANGED nonHistVars

StoreRedo ==
  LET r == redo(history, historyIndex)
  IN  /\ historyIndex' = r.historyIndex
      /\ ret' = r.ret
      /\ lastOp' = "redo"
      /\ UNCHANGED <<history, snapCount, discards>>
      /\ UNCHANGED nonHistVars

StoreClearHistory ==
  /\ history' = <<>>
  /\ historyIndex' = -1
  /\ ret' = None
  /\ lastOp' = "clearHistory"
  /\ UNCHANGED <<snapCount, discards>>
  /\ UNCHANGED nonHistVars

\* ---------------------------------------------------------------------------
\* SpecFresh: the history of a freshly created store
\* ---------------------------------------------------------------------------

InitFresh ==
  /\ HistoryEmpty
  /\ SceneEmpty /\ ConfigDefault /\ ViewDefault /\ ComponentIdle
  /\ PointerIdle /\ ProbeIdle
  /\ lastOp = "init"

FreshSaveState ==
  /\ snapCount < MaxPushes
  /\ canRedo(history, historyIndex) => discards < MaxDiscards
  /\ StoreSaveState
  /\ UNCHANGED <<trace, eventCount, renderVars>>

FreshUndo == StoreUndo /\ UNCHANGED <<trace, eventCount, renderVars>>

FreshRedo == StoreRedo /\ UNCHANGED <<trace, eventCount, renderVars>>

NextFresh == FreshSaveState \/ FreshUndo \/ FreshRedo

SpecFresh == InitFresh /\ [][NextFresh]_vars

\* ---------------------------------------------------------------------------
\* SpecHistory: store operations applied to every shape of history
\* ---------------------------------------------------------------------------

\* The histories n pushes and n-1-i undos produce, for every length n up to the
\* capacity and every index i.
InitHistory ==
  \E n \in 0..MAX_HISTORY_SIZE :
    /\ history = [k \in 1..n |-> k]
    /\ historyIndex \in (IF n = 0 THEN {-1} ELSE 0..(n - 1))
    /\ snapCount = n
    /\ ret = None
    /\ discards = 0
    /\ trace = <<>>
    /\ SceneEmpty /\ ConfigDefault /\ ViewDefault /\ ComponentIdle
    /\ PointerIdle /\ ProbeIdle
    /\ lastOp = "init"

Logged(op) ==
  /\ Len(trace) < MaxOps
  /\ trace' = Append(trace, [op |-> op, h |-> history, before |-> historyIndex,
                             after |-> historyIndex', ret |-> ret'])
  /\ UNCHANGED <<eventCount, renderVars>>

HistSaveState == StoreSaveState /\ Logged("saveState")

HistUndo == StoreUndo /\ Logged("undo")

HistRedo == StoreRedo /\ Logged("redo")

HistClearHistory == StoreClearHistory /\ Logged("clearHistory")

NextHistory == HistSaveState \/ HistUndo \/ HistRedo \/ HistClearHistory

SpecHistory == InitHistory /\ [][NextHistory]_vars

\* ---------------------------------------------------------------------------
\* Claims about the history
\* ---------------------------------------------------------------------------

Range(f) == {f[k] : k \in DOMAIN f}

C2_RedoBranchDiscarded ==
  [][ (snapCount' = snapCount + 1 /\ historyIndex < Len(history) - 1) =>
        /\ \A k \in (historyIndex + 2)..Len(history) : history[k] \notin Range(history')
        /\ redo(history', historyIndex').ret = None
        /\ redo(history', historyIndex').historyIndex = historyIndex' ]_vars

\* C3: after saveState on a non-empty history the entry below the new snapshot
\* is the one that was current, and one undo returns it.
C3_CurrentEntryKept ==
  [][ (snapCount' = snapCount + 1 /\ Len(history) > 0) =>
        /\ At(history', historyIndex' - 1) = At(history, historyIndex)
        /\ undo(history', historyIndex').ret = At(history, historyIndex) ]_vars

\* C4: historyIndex is -1 on an empty history and a valid position otherwise.
C4_IndexInRange ==
  /\ (Len(history) = 0 => historyIndex = -1)
  /\ (Len(history) > 0 => (0 <= historyIndex /\ historyIndex < Len(history)))

\* C4 witness: a push onto a full history whose index had been undone to 0.
C4_Witness ==
  /\ Len(trace) > 0
  /\ trace[Len(trace)].op = "saveState"
  /\ trace[Len(trace)].before = 0
  /\ snapCount = MAX_HISTORY_SIZE + 1

\* C5: undo returns a snapshot exactly when index > 0 and redo exactly when
\* index < length - 1; otherwise they return null and change nothing.
C5_BoundaryNoOp ==
  [][ /\ (lastOp' = "undo" /\ snapCount' = snapCount) =>
            /\ (ret' # None) <=> (historyIndex > 0)
            /\ (historyIndex > 0) => ret' = Some(history[historyIndex])
            /\ ~(historyIndex > 0) => (historyIndex' = historyIndex /\ history' = history)
      /\ (lastOp' = "redo" /\ snapCount' = snapCount) =>
            /\ (ret' # None) <=> (historyIndex < Len(history) - 1)
            /\ (historyIndex < Len(history) - 1) => ret' = Some(history[historyIndex + 2])
            /\ ~(historyIndex < Len(history) - 1) =>
                 (historyIndex' = historyIndex /\ history' = history) ]_vars

\* C5 witness: a redo at the last entry and an undo at index 0 both returned null.
C5_Witness ==
  /\ Len(trace) = 2
  /\ trace[1].op = "redo" /\ trace[1].ret = None /\ trace[1].before = Len(history) - 1
  /\ trace[2].op = "undo" /\ trace[2].ret = None /\ trace[2].before = 0

\* C6: undo at index i > 0 returns entry i-1 and sets the index to i-1, a redo
\* right after it returns entry i and restores i; on [A,B,C] at index 2 three
\* undos return B, A and nothing, the index ending at 0.
C6_UndoRedoSymmetry ==
  /\ \A k \in DOMAIN trace :
       (trace[k].op = "undo" /\ trace[k].before > 0) =>
          /\ trace[k].after = trace[k].before - 1
          /\ trace[k].ret = Some(trace[k].h[trace[k].before])
          /\ (k + 1 \in DOMAIN trace /\ trace[k + 1].op = "redo") =>
               /\ trace[k + 1].after = trace[k].before
               /\ trace[k + 1].ret = Some(trace[k].h[trace[k].before + 1])
  /\ (/\ Len(history) = 3
      /\ Len(trace) = 3
      /\ trace[1].before = 2
      /\ \A k \in 1..3 : trace[k].op = "undo") =>
        /\ trace[1].ret = Some(history[2]) /\ trace[1].after = 1
        /\ trace[2].ret = Some(history[1]) /\ trace[2].after = 0
        /\ trace[3].ret = None /\ trace[3].after = 0
        /\ historyIndex = 0

\* C6 witness: undo, redo, undo from the last of three entries.
C6_Witness ==
  /\ Len(history) = 3
  /\ Len(trace) = 3
  /\ trace[1].op = "undo" /\ trace[1].before = 2
  /\ trace[2].op = "redo" /\ trace[2].after = 2
  /\ trace[3].op = "undo" /\ trace[3].ret = Some(2)


\* ---------------------------------------------------------------------------
\* SpecSnap: getSnappedPosition applied to enumerated scenes and cursors
\* ---------------------------------------------------------------------------

\* Bound: objects in an enumerated scene.
MaxSceneObjects == 2

LineObj(x1, y1, x2, y2) ==
  [type |-> "line", start |-> Pt(Num(x1), Num(y1)), end |-> Pt(Num(x2), Num(y2)),
   color |-> "#000000", lineWidth |-> 2]

RectObj(x, y, w, h) ==
  [type |-> "rectangle", x |-> Num(x), y |-> Num(y), width |-> Num(w), height |-> Num(h),
   color |-> "#000000", lineWidth |-> 2, filled |-> FALSE]

CircleObj(x, y, r) ==
  [type |-> "circle", x |-> Num(x), y |-> Num(y), radius |-> Num(r),
   color |-> "#000000", lineWidth |-> 2, filled |-> FALSE]

\* Objects the tools can commit: a line drawn with grid snap off, a rectangle
\* and a circle sized at the prompt (1 inch = 96, half an inch = 48).
SnapObjects ==
  { LineObj(28, 0, 60, 0), RectObj(44, 4, 96, 96), CircleObj(5, 5, 48) }

SnapScenes ==
  UNION { [1..n -> SnapObjects] : n \in 0..MaxSceneObjects }

\* The snap settings are the ones the toggle actions reach; the zoom levels are
\* one zoom step from 1, and the pan offsets are ones a drag produces.
SnapZooms == { Frac(5, 6), Num(1), Frac(6, 5) }
SnapPans == { Pt(Num(0), Num(0)), Pt(Num(7), Num(0 - 5)) }

\* Raw canvas positions of the cursor.
SnapCursors == { [x |-> cx, y |-> cy] : cx \in {0, 12, 20, 34}, cy \in {0, 9} }

InitSnap ==
  /\ HistoryEmpty
  /\ currentTool = "select"
  /\ vectorObjects \in SnapScenes
  /\ polylinePoints \in { <<>>, << Pt(Num(31), Num(30)) >> }
  /\ isDrawing = FALSE
  /\ dimensionStart = None
  /\ dimensionSecondPoint = None
  /\ dimensionLinePosition = None
  /\ gridSize = 20
  /\ snapToGrid \in BOOLEAN
  /\ snapToPoints \in BOOLEAN
  /\ snapToLines \in BOOLEAN
  /\ snapTolerance = 10
  /\ lineColor = "#000000"
  /\ lineWidth = 2
  /\ zoomLevel \in SnapZooms
  /\ panOffset \in SnapPans
  /\ ComponentIdle /\ PointerIdle /\ ProbeIdle
  /\ lastOp = "init"

snapFrame == <<histVars, sceneVars, viewVars, compVars, pointerVars, mapVars,
               renderVars>>

\* getSnappedPosition on the world position of a raw cursor position.
ProbeSnap ==
  \E raw \in SnapCursors :
    /\ snapOut = None
    /\ snapIn' = getMousePos(raw)
    /\ snapOut' = Some(getSnappedPosition(getMousePos(raw)))
    /\ snapPrev' = None
    /\ lastOp' = "getSnappedPosition"
    /\ UNCHANGED <<snapFrame, configVars>>

\* getSnappedPosition on the position it returned last.
ProbeSnapAgain ==
  /\ snapOut # None
  /\ snapPrev = None
  /\ snapIn' = snapOut[1].position
  /\ snapOut' = Some(getSnappedPosition(snapOut[1].position))
  /\ snapPrev' = snapOut
  /\ lastOp' = "getSnappedPosition"
  /\ UNCHANGED <<snapFrame, configVars>>

NextSnap == ProbeSnap \/ ProbeSnapAgain

SpecSnap == InitSnap /\ [][NextSnap]_vars

\* ---------------------------------------------------------------------------
\* Claims about snapping
\* ---------------------------------------------------------------------------

\* C7: with grid snap and point snap enabled, a cursor within tolerance of an
\* endpoint resolves to the grid intersection with kind grid, not to the endpoint.
C7_GridBeatsEndpoint ==
  (/\ snapOut # None
   /\ snapToGrid /\ snapToPoints
   /\ \E k \in DOMAIN endpointCandidates :
        WithinTolerance(snapIn, endpointCandidates[k], snapTolerance)) =>
     /\ snapOut[1].type = Some("grid")
     /\ snapOut[1].position =
          snapToTransformedGrid(snapIn, gridSize, panOffset, zoomLevel)

\* C8: when a cursor resolves to a grid snap at q, resolving q again yields q.
C8_GridSnapIdempotent ==
  (/\ snapPrev # None
   /\ snapToGrid
   /\ snapPrev[1].type = Some("grid")) =>
     snapOut[1].position = snapPrev[1].position

\* ---------------------------------------------------------------------------
\* Component: event handlers (CADCanvas)
\* ---------------------------------------------------------------------------

Tools == {"select", "polyline", "line", "rectangle", "circle", "dimension"}

\* MouseEvent.button: 0 is the left button, 2 the right button.
Buttons == {0, 2}

\* Raw canvas positions of pointer events.
ScreenPoints == { Pt(8, 9), Pt(52, 31) }

\* The component's saveState(): a new ImageData is handed to the store.
Saved ==
  LET r == saveState(history, historyIndex, snapCount + 1)
  IN  /\ history' = r.history
      /\ historyIndex' = r.historyIndex
      /\ snapCount' = snapCount + 1
      /\ discards' = IF canRedo(history, historyIndex) THEN discards + 1 ELSE discards

NotSaved == UNCHANGED <<history, historyIndex, snapCount, discards>>

\* The scenes and snapshot counts the model follows.
WithinBounds ==
  /\ Len(vectorObjects) < MaxObjects
  /\ snapCount < MaxSnapshots

\* The polyline is completed on a right click once it has this many points.
polylineCompleteAtOne(points) == Len(points) > 0
polylineComplete(points) == Len(points) > 1

\* setDimensionSecondPoint(point), clearAllDimensionData() of the store.
clearAllDimensionData ==
  /\ dimensionStart' = None
  /\ dimensionSecondPoint' = None
  /\ dimensionLinePosition' = None

\* The object the click that completes a dimension adds.
dimensionObjectSwapped ==
  [type |-> "dimension", point1 |-> dimensionSecondPoint[1],
   point2 |-> dimensionStart[1],
   dimensionLinePos |-> dimensionLinePosition[1],
   color |-> lineColor, lineWidth |-> lineWidth]
dimensionObject ==
  [type |-> "dimension", point1 |-> dimensionStart[1],
   point2 |-> dimensionSecondPoint[1],
   dimensionLinePos |-> dimensionLinePosition[1],
   color |-> lineColor, lineWidth |-> lineWidth]

\* setTool(tool), then updateCursor().
setTool(tool) ==
  /\ currentTool' = tool
  /\ polylinePoints' = IF tool # "polyline" THEN <<>> ELSE polylinePoints
  /\ dimensionStart' = IF tool # "dimension" THEN None ELSE dimensionStart
  /\ lastOp' = "event"
  /\ UNCHANGED <<vectorObjects, isDrawing, dimensionSecondPoint, dimensionLinePosition>>
  /\ UNCHANGED <<histVars, configVars, viewVars, compVars, probeVars>>

\* onMouseDown(event)
onMouseDown(button, raw) ==
  \E snapped \in { getSnappedPosition(getMousePos(raw)).position } :
    /\ lastOp' = "event"
    /\ IF currentTool = "select" /\ button = 0
         THEN /\ isPanning' = TRUE
              /\ lastMousePos' = raw
              /\ UNCHANGED <<sceneVars, startPoint>>
       ELSE IF currentTool = "polyline"
         THEN /\ Len(polylinePoints) < MaxPolylinePoints
              /\ isDrawing' = TRUE
              /\ polylinePoints' = Append(polylinePoints, snapped)
              /\ UNCHANGED <<currentTool, vectorObjects, dimensionStart,
                             dimensionSecondPoint, dimensionLinePosition>>
              /\ UNCHANGED <<startPoint, isPanning, lastMousePos>>
       ELSE IF currentTool \in {"line", "rectangle", "circle"}
         THEN /\ startPoint' = Some(snapped)
              /\ UNCHANGED <<sceneVars, isPanning, lastMousePos>>
       ELSE IF currentTool = "dimension"
         THEN /\ IF dimensionStart = None
                   THEN /\ dimensionStart' = Some(snapped)
                        /\ UNCHANGED dimensionSecondPoint
                   ELSE IF dimensionSecondPoint = None
                     THEN /\ dimensionSecondPoint' = Some(snapped)
                          /\ UNCHANGED dimensionStart
                     ELSE UNCHANGED <<dimensionStart, dimensionSecondPoint>>
              /\ UNCHANGED <<currentTool, vectorObjects, polylinePoints, isDrawing,
                             dimensionLinePosition>>
              /\ UNCHANGED <<startPoint, isPanning, lastMousePos>>
       ELSE UNCHANGED <<sceneVars, startPoint, isPanning, lastMousePos>>
    /\ UNCHANGED <<currentCommand, commandCallback>>
    /\ UNCHANGED <<histVars, configVars, viewVars, probeVars>>

\* onMouseUp()
onMouseUp ==
  /\ lastOp' = "event"
  /\ isPanning' = FALSE
  /\ isDrawing' = IF currentTool = "polyline" THEN FALSE ELSE isDrawing
  /\ UNCHANGED <<currentTool, vectorObjects, polylinePoints, dimensionStart,
                 dimensionSecondPoint, dimensionLinePosition>>
  /\ UNCHANGED <<startPoint, currentCommand, commandCallback, lastMousePos>>
  /\ UNCHANGED <<histVars, configVars, viewVars, probeVars>>

\* addPanOffset(deltaX, deltaY) of the store.
addPanOffset(deltaX, deltaY) ==
  Pt(Plus(panOffset.x, Num(deltaX)), Plus(panOffset.y, Num(deltaY)))

\* The pan offsets the model follows: each coordinate within MaxPan pixels.
MaxPan == 50

withinMaxPan(offset) ==
  /\ LessEq(Num(0 - MaxPan), offset.x) /\ LessEq(offset.x, Num(MaxPan))
  /\ LessEq(Num(0 - MaxPan), offset.y) /\ LessEq(offset.y, Num(MaxPan))

\* onMouseMove(event), with the snapped position it computes.
onMouseMoveAt(raw, snapped) ==
    /\ lastOp' = "onMouseMove"
    /\ IF isPanning /\ currentTool = "select"
         THEN /\ withinMaxPan(addPanOffset(raw.x - lastMousePos.x, raw.y - lastMousePos.y))
              /\ panOffset' = addPanOffset(raw.x - lastMousePos.x, raw.y - lastMousePos.y)
              /\ lastMousePos' = raw
              /\ UNCHANGED dimensionLinePosition
       ELSE /\ dimensionLinePosition' =
                 IF /\ currentTool = "dimension"
                    /\ dimensionStart # None
                    /\ dimensionSecondPoint # None
                   THEN Some(snapped)
                   ELSE dimensionLinePosition
            /\ UNCHANGED <<panOffset, lastMousePos>>
    /\ UNCHANGED <<currentTool, vectorObjects, polylinePoints, isDrawing,
                   dimensionStart, dimensionSecondPoint>>
    /\ UNCHANGED <<startPoint, currentCommand, commandCallback, isPanning>>
    /\ UNCHANGED <<histVars, configVars, zoomLevel, probeVars>>

\* onMouseMove(event)
onMouseMove(raw) ==
  \E snapped \in { getSnappedPosition(getMousePos(raw)).position } :
    onMouseMoveAt(raw, snapped)

\* onClick(event) with event.button === 0
onClickLeft(raw) ==
  \E snapped \in { getSnappedPosition(getMousePos(raw)).position } :
    IF currentTool = "polyline" /\ ~isDrawing
      THEN /\ Len(polylinePoints) < MaxPolylinePoints
           /\ polylinePoints' = Append(polylinePoints, snapped)
           /\ NotSaved
           /\ UNCHANGED <<currentTool, vectorObjects, isDrawing, dimensionStart,
                          dimensionSecondPoint, dimensionLinePosition>>
           /\ UNCHANGED <<startPoint, currentCommand, commandCallback>>
    ELSE IF currentTool = "line" /\ startPoint # None
      THEN /\ vectorObjects' = Append(vectorObjects,
                [type |-> "line", start |-> startPoint[1], end |-> snapped,
                 color |-> lineColor, lineWidth |-> lineWidth])
           /\ startPoint' = None
           /\ Saved
           /\ UNCHANGED <<currentTool, polylinePoints, isDrawing, dimensionStart,
                          dimensionSecondPoint, dimensionLinePosition>>
           /\ UNCHANGED <<currentCommand, commandCallback>>
    ELSE IF currentTool = "rectangle" /\ startPoint # None
      THEN /\ currentCommand' = Some("width")
           /\ commandCallback' = Some([kind |-> "width"])
           /\ NotSaved
           /\ UNCHANGED <<sceneVars, startPoint>>
    ELSE IF currentTool = "circle" /\ startPoint # None
      THEN /\ currentCommand' = Some("radius")
           /\ commandCallback' = Some([kind |-> "radius"])
           /\ NotSaved
           /\ UNCHANGED <<sceneVars, startPoint>>
    ELSE IF /\ currentTool = "dimension"
            /\ dimensionStart # None
            /\ dimensionSecondPoint # None
            /\ dimensionLinePosition # None
      THEN /\ vectorObjects' = Append(vectorObjects, dimensionObject)
           /\ clearAllDimensionData
           /\ Saved
           /\ UNCHANGED <<currentTool, polylinePoints, isDrawing>>
           /\ UNCHANGED <<startPoint, currentCommand, commandCallback>>
    ELSE /\ NotSaved
         /\ UNCHANGED <<sceneVars, startPoint, currentCommand, commandCallback>>

\* onClick(event) with event.button === 2
onClickRight ==
  LET stop == currentTool = "polyline" /\ isDrawing
      complete == stop /\ polylineComplete(polylinePoints)
  IN  /\ isDrawing' = IF stop THEN FALSE ELSE isDrawing
      /\ IF complete
           THEN /\ vectorObjects' = Append(vectorObjects,
                     [type |-> "polyline", points |-> polylinePoints,
                      color |-> lineColor, lineWidth |-> lineWidth])
                /\ polylinePoints' = <<>>
                /\ Saved
           ELSE /\ UNCHANGED <<vectorObjects, polylinePoints>>
                /\ NotSaved
      /\ startPoint' = None
      /\ clearAllDimensionData
      /\ currentCommand' = None
      /\ commandCallback' = None
      /\ UNCHANGED currentTool

\* onClick(event)
onClick(button, raw) ==
  /\ lastOp' = "event"
  /\ IF button = 0 THEN onClickLeft(raw)
     ELSE IF button = 2 THEN onClickRight
     ELSE /\ NotSaved
          /\ UNCHANGED <<sceneVars, startPoint, currentCommand, commandCallback>>
  /\ UNCHANGED <<ret, trace, isPanning, lastMousePos>>
  /\ UNCHANGED <<configVars, viewVars, probeVars>>

\* ---------------------------------------------------------------------------
\* Spec: the handlers invoked in any order, from the mounted component
\* ---------------------------------------------------------------------------

\* onMounted: the grid is drawn and the initial canvas state is saved.
Init ==
  /\ history = <<1>>
  /\ historyIndex = 0
  /\ snapCount = 1
  /\ ret = None
  /\ discards = 0
  /\ trace = <<>>
  /\ SceneEmpty /\ ConfigDefault /\ ViewDefault /\ ComponentIdle
  /\ PointerIdle /\ ProbeIdle
  /\ lastOp = "init"

ToolSelected == \E tool \in Tools : setTool(tool) /\ UNCHANGED <<pointerVars, renderVars>>

MouseDown ==
  \E button \in Buttons, raw \in ScreenPoints :
    onMouseDown(button, raw) /\ UNCHANGED <<pointerVars, renderVars>>

MouseUp == onMouseUp /\ UNCHANGED <<pointerVars, renderVars>>

Click ==
  \E button \in Buttons, raw \in ScreenPoints :
    WithinBounds /\ onClick(button, raw) /\ UNCHANGED <<pointerVars, renderVars>>

Next == ToolSelected \/ MouseDown \/ MouseUp \/ Click

Spec == Init /\ [][Next]_vars

\* ---------------------------------------------------------------------------
\* SpecPolyline: the handlers invoked in any order while the toolbar switches
\* between the select and the polyline tool only
\* ---------------------------------------------------------------------------

PolylineTools == {"select", "polyline"}

PolylineToolSelected ==
  \E tool \in PolylineTools : setTool(tool) /\ UNCHANGED <<pointerVars, renderVars>>

NextPolyline == PolylineToolSelected \/ MouseDown \/ MouseUp \/ Click

SpecPolyline == Init /\ [][NextPolyline]_vars

\* ---------------------------------------------------------------------------
\* SpecBrowser: pointer events in the order a browser delivers them for one
\* physical click (mousedown, mouseup, then click for the left button or
\* contextmenu for the right button)
\* ---------------------------------------------------------------------------

BrowserToolSelected ==
  \E tool \in Tools :
    /\ setTool(tool)
    /\ gesture' = None
    /\ UNCHANGED <<phase, heldButton, pointerAt, eventCount, renderVars>>

BrowserMouseDown ==
  \E button \in Buttons, raw \in ScreenPoints :
    /\ phase = "idle"
    /\ onMouseDown(button, raw)
    /\ phase' = "down"
    /\ heldButton' = button
    /\ pointerAt' = raw
    /\ gesture' = Some([tool |-> currentTool, len |-> Len(polylinePoints),
                         start |-> startPoint,
                         dim |-> <<dimensionStart, dimensionSecondPoint,
                                   dimensionLinePosition>>])
    /\ UNCHANGED <<eventCount, renderVars>>

BrowserMouseUp ==
  /\ phase = "down"
  /\ onMouseUp
  /\ phase' = "released"
  /\ UNCHANGED <<heldButton, pointerAt, gesture, eventCount, renderVars>>

BrowserClick ==
  /\ phase = "released"
  /\ heldButton = 0
  /\ WithinBounds
  /\ onClick(0, pointerAt)
  /\ phase' = "idle"
  /\ gesture' = None
  /\ UNCHANGED <<heldButton, pointerAt, eventCount, renderVars>>

\* onContextMenu(event): only prevents the default menu.
BrowserContextMenu ==
  /\ phase = "released"
  /\ heldButton = 2
  /\ phase' = "idle"
  /\ gesture' = None
  /\ lastOp' = "event"
  /\ UNCHANGED <<heldButton, pointerAt, eventCount, renderVars>>
  /\ UNCHANGED <<histVars, sceneVars, configVars, viewVars, compVars, probeVars>>

NextBrowser ==
  \/ BrowserToolSelected
  \/ BrowserMouseDown
  \/ BrowserMouseUp
  \/ BrowserClick
  \/ BrowserContextMenu

SpecBrowser == Init /\ [][NextBrowser]_vars

\* ---------------------------------------------------------------------------
\* Claims about the polyline tool
\* ---------------------------------------------------------------------------

\* C9: with the polyline tool, one physical left click (mousedown, mouseup,
\* click at one position) appends exactly one point to the active polyline.
C9_OnePointPerClick ==
  [][ (/\ phase = "released" /\ phase' = "idle"
       /\ heldButton = 0
       /\ gesture # None
       /\ gesture[1].tool = "polyline") =>
        Len(polylinePoints') = gesture[1].len + 1 ]_vars

\* C10: completing a polyline with two or more active points appends exactly
\* one polyline object holding those points in order and empties the active
\* points; with fewer than two points nothing is appended, the scene is unchanged.
C10_PolylineCommit ==
  [][ (/\ \E raw \in ScreenPoints : onClick(2, raw)
       /\ currentTool = "polyline"
       /\ isDrawing) =>
        IF Len(polylinePoints) >= 2
          THEN /\ Len(vectorObjects') = Len(vectorObjects) + 1
               /\ SubSeq(vectorObjects', 1, Len(vectorObjects)) = vectorObjects
               /\ vectorObjects'[Len(vectorObjects')].type = "polyline"
               /\ vectorObjects'[Len(vectorObjects')].points = polylinePoints
               /\ polylinePoints' = <<>>
          ELSE vectorObjects' = vectorObjects ]_vars

\* C10 witness: a polyline of two distinct points has been completed, in the
\* order they were placed, and no active points remain.
C10_Witness ==
  /\ vectorObjects # <<>>
  /\ vectorObjects[Len(vectorObjects)].type = "polyline"
  /\ Len(vectorObjects[Len(vectorObjects)].points) >= 2
  /\ vectorObjects[Len(vectorObjects)].points[1] # vectorObjects[Len(vectorObjects)].points[2]
  /\ polylinePoints = <<>>
  /\ ~isDrawing

\* ---------------------------------------------------------------------------
\* Claims about the line tool
\* ---------------------------------------------------------------------------

\* C11: with the line tool, the first physical click (no start point recorded
\* when the button goes down) only records the start point and appends nothing
\* to the scene; a line is appended only by the second click.
C11_LineFirstClickRecords ==
  [][ (/\ phase = "released" /\ phase' = "idle"
       /\ heldButton = 0
       /\ gesture # None
       /\ gesture[1].tool = "line"
       /\ gesture[1].start = None) =>
        (/\ vectorObjects' = vectorObjects
         /\ startPoint' # None) ]_vars

\* ---------------------------------------------------------------------------
\* Component: the command line (numeric prompts)
\* ---------------------------------------------------------------------------

\* Texts typed at the command line, trimmed.
InputTexts == {"", "1", "2", "0", "-1"}

\* parseFloat(value) on these texts; None stands for NaN.
parseFloat(text) ==
  CASE text = "1" -> Some(Num(1))
    [] text = "2" -> Some(Num(2))
    [] text = "0" -> Some(Num(0))
    [] text = "-1" -> Some(Num(0 - 1))
    [] OTHER -> None

\* An inchesToPixels at 72 units to the inch.
inchesToPoints(inches) == Times(inches, Num(72))

\* inchesToPixels(inches)
inchesToPixels(inches) == Times(inches, Num(96))

\* The value submitCommand hands to the callback: pixels for a number, the raw
\* text otherwise (a string, written [text |-> ...] to keep it apart from the
\* numbers).
callbackValue(text) ==
  IF parseFloat(text) # None THEN inchesToPixels(parseFloat(text)[1])
  ELSE [text |-> text]

\* userWidth <= 0, userHeight <= 0, userRadius <= 0 as the callbacks test it:
\* false for a text that is not a number.
notPositive(text) ==
  parseFloat(text) # None /\ LessEq(callbackValue(text), Num(0))

\* The prompt the callback leaves behind: the width callback opens the height
\* prompt with showCommand('height', ...); the others leave the prompt alone.
afterCallback(text) ==
  IF text # "" /\ commandCallback[1].kind = "width" /\ ~notPositive(text)
    THEN [currentCommand |-> Some("height"),
          commandCallback |-> Some([kind |-> "height", userWidth |-> callbackValue(text)])]
    ELSE [currentCommand |-> currentCommand, commandCallback |-> commandCallback]

\* clearCommand(), applied to the prompt it finds.
clearCommand(prompt) == [currentCommand |-> None, commandCallback |-> None]

\* The object the height or the radius callback adds at the start point.
promptedObject(text) ==
  IF commandCallback[1].kind = "height"
    THEN [type |-> "rectangle", x |-> startPoint[1].x, y |-> startPoint[1].y,
          width |-> commandCallback[1].userWidth, height |-> callbackValue(text),
          color |-> lineColor, lineWidth |-> lineWidth, filled |-> FALSE]
    ELSE [type |-> "circle", x |-> startPoint[1].x, y |-> startPoint[1].y,
          radius |-> callbackValue(text),
          color |-> lineColor, lineWidth |-> lineWidth, filled |-> FALSE]

\* submitCommand(): the callback runs first, clearCommand() after it returns.
submitCommand(text) ==
  /\ lastOp' = "submitCommand"
  /\ IF currentCommand = None \/ commandCallback = None
       THEN /\ NotSaved
            /\ UNCHANGED <<sceneVars, startPoint, currentCommand, commandCallback>>
     ELSE IF text = "" \/ notPositive(text) \/ commandCallback[1].kind = "width"
       THEN \* no callback, or a callback that returns without adding an object
            /\ currentCommand' = clearCommand(afterCallback(text)).currentCommand
            /\ commandCallback' = clearCommand(afterCallback(text)).commandCallback
            /\ NotSaved
            /\ UNCHANGED <<sceneVars, startPoint>>
     ELSE IF startPoint = None
       THEN \* drawingState.value.startPoint.x throws: clearCommand() is not reached
            /\ NotSaved
            /\ UNCHANGED <<sceneVars, startPoint, currentCommand, commandCallback>>
     ELSE /\ vectorObjects' = Append(vectorObjects, promptedObject(text))
          /\ startPoint' = None
          /\ Saved
          /\ currentCommand' = clearCommand(afterCallback(text)).currentCommand
          /\ commandCallback' = clearCommand(afterCallback(text)).commandCallback
          /\ UNCHANGED <<currentTool, polylinePoints, isDrawing, dimensionStart,
                         dimensionSecondPoint, dimensionLinePosition>>
  /\ UNCHANGED <<ret, isPanning, lastMousePos>>
  /\ UNCHANGED <<configVars, viewVars, probeVars>>

\* cancelCommand()
cancelCommand ==
  /\ lastOp' = "cancelCommand"
  /\ currentCommand' = clearCommand(
       [currentCommand |-> currentCommand, commandCallback |-> commandCallback]).currentCommand
  /\ commandCallback' = clearCommand(
       [currentCommand |-> currentCommand, commandCallback |-> commandCallback]).commandCallback
  /\ UNCHANGED <<startPoint, isPanning, lastMousePos>>
  /\ UNCHANGED <<histVars, sceneVars, configVars, viewVars, probeVars>>

\* ---------------------------------------------------------------------------
\* Component: keyboard shortcuts, undo, redo, clear and refresh
\* ---------------------------------------------------------------------------

\* KeyboardEvent.key of the keys pressed on the container.
Keys == {"Escape", "Delete", "F5", "z", "y", "v", "p", "l", "r", "c", "d", "h"}

\* String.prototype.toLowerCase on these keys.
toLowerCase(key) ==
  CASE key = "Escape" -> "escape"
    [] key = "Delete" -> "delete"
    [] key = "F5" -> "f5"
    [] OTHER -> key

\* The property names of keyboardShortcuts.
keyboardShortcuts ==
  {"v", "p", "l", "r", "c", "d", "g", "s", "h", "Escape", "f5"}

\* The tool a tool shortcut selects.
shortcutTool(name) ==
  CASE name = "v" -> "select"
    [] name = "p" -> "polyline"
    [] name = "l" -> "line"
    [] name = "r" -> "rectangle"
    [] name = "c" -> "circle"
    [] name = "d" -> "dimension"

\* An undo that also takes the newest object out of the scene.
canvasUndoPopsScene ==
  /\ historyIndex' = undo(history, historyIndex).historyIndex
  /\ ret' = undo(history, historyIndex).ret
  /\ lastOp' = "undo"
  /\ vectorObjects' = SubSeq(vectorObjects, 1, Len(vectorObjects) - 1)
  /\ UNCHANGED <<history, snapCount, discards, trace>>
  /\ UNCHANGED <<currentTool, polylinePoints, isDrawing, dimensionStart,
                 dimensionSecondPoint, dimensionLinePosition>>
  /\ UNCHANGED <<configVars, viewVars, compVars, pointerVars, probeVars>>

\* undo() of the component: the store's undo(); the snapshot it returns, if
\* any, is painted on the canvas.
canvasUndo == StoreUndo /\ UNCHANGED trace

\* redo() of the component.
canvasRedo == StoreRedo /\ UNCHANGED trace

\* A resetCanvas that whitens the objects instead of removing them.
resetCanvasWhitens ==
  /\ polylinePoints' = <<>>
  /\ dimensionStart' = None
  /\ vectorObjects' = [k \in DOMAIN vectorObjects |->
                         [vectorObjects[k] EXCEPT !.color = "#ffffff"]]
  /\ isDrawing' = FALSE
  /\ UNCHANGED <<currentTool, dimensionSecondPoint, dimensionLinePosition>>

\* resetCanvas() of the store.
resetCanvas ==
  /\ polylinePoints' = <<>>
  /\ dimensionStart' = None
  /\ vectorObjects' = <<>>
  /\ isDrawing' = FALSE
  /\ UNCHANGED <<currentTool, dimensionSecondPoint, dimensionLinePosition>>

\* clearCanvas() of the component.
clearCanvas ==
  /\ resetCanvas
  /\ Saved
  /\ lastOp' = "event"
  /\ UNCHANGED <<ret, trace>>
  /\ UNCHANGED <<configVars, viewVars, compVars, probeVars>>

\* refreshCanvas() of the component.
refreshCanvasUnsaved ==
  /\ NotSaved
  /\ lastOp' = "event"
  /\ UNCHANGED <<ret, trace>>
  /\ UNCHANGED <<sceneVars, configVars, viewVars, compVars, probeVars>>
refreshCanvas ==
  /\ Saved
  /\ lastOp' = "event"
  /\ UNCHANGED <<ret, trace>>
  /\ UNCHANGED <<sceneVars, configVars, viewVars, compVars, probeVars>>

\* toggleSnapToGrid() of the store.
toggleSnapToGrid ==
  /\ snapToGrid' = ~snapToGrid
  /\ lastOp' = "event"
  /\ UNCHANGED <<gridSize, snapToPoints, snapToLines, snapTolerance, lineColor,
                 lineWidth>>
  /\ UNCHANGED <<histVars, sceneVars, viewVars, compVars, probeVars>>

\* A handler that changes nothing the model follows (toggleGrid, the help
\* dialog, a key without a shortcut).
noEffect ==
  /\ lastOp' = "handleKeyDown"
  /\ UNCHANGED <<histVars, sceneVars, configVars, viewVars, compVars, probeVars>>

\* handleEscape()
handleEscape ==
  /\ startPoint' = None
  /\ clearAllDimensionData
  /\ lastOp' = "event"
  /\ UNCHANGED <<currentTool, vectorObjects, polylinePoints, isDrawing>>
  /\ UNCHANGED <<currentCommand, commandCallback, isPanning, lastMousePos>>
  /\ UNCHANGED <<histVars, configVars, viewVars, probeVars>>

\* handleKeyDown(event)
handleKeyDown(key, ctrlKey) ==
  LET k == toLowerCase(key)
  IN  IF ctrlKey /\ k = "z" THEN canvasUndo
      ELSE IF ctrlKey /\ k = "y" THEN canvasRedo
      ELSE IF ctrlKey /\ k = "delete" THEN clearCanvas
      ELSE IF k \notin keyboardShortcuts THEN noEffect
      ELSE IF k \in {"v", "p", "l", "r", "c", "d"} THEN setTool(shortcutTool(k))
      ELSE IF k = "s" THEN toggleSnapToGrid
      ELSE IF k = "Escape" THEN handleEscape
      ELSE IF k = "f5" THEN refreshCanvas
      ELSE noEffect

\* Escape pressed in the command line: handleCommandKeydown cancels the
\* command, the keydown event bubbles to the container's handleKeyDown, and
\* keyup.esc cancels the command again.
cancelThenEscape ==
  /\ lastOp' = "cancelCommand"
  /\ currentCommand' = None
  /\ commandCallback' = None
  /\ startPoint' = None
  /\ clearAllDimensionData
  /\ UNCHANGED <<currentTool, vectorObjects, polylinePoints, isDrawing>>
  /\ UNCHANGED <<isPanning, lastMousePos>>
  /\ UNCHANGED <<histVars, configVars, viewVars, probeVars>>

commandEscape ==
  IF toLowerCase("Escape") \in keyboardShortcuts
    THEN cancelThenEscape
    ELSE cancelCommand

\* ---------------------------------------------------------------------------
\* SpecPrompt: the rectangle and circle tools with the command line
\* ---------------------------------------------------------------------------

PromptTools == {"rectangle", "circle"}

PromptToolSelected ==
  \E tool \in PromptTools : setTool(tool) /\ UNCHANGED <<pointerVars, renderVars>>

PromptSubmit ==
  \E text \in InputTexts :
    WithinBounds /\ submitCommand(text) /\ UNCHANGED <<trace, pointerVars, renderVars>>

PromptCancel == commandEscape /\ UNCHANGED <<pointerVars, renderVars>>

NextPrompt ==
  \/ PromptToolSelected
  \/ MouseDown
  \/ MouseUp
  \/ Click
  \/ PromptSubmit
  \/ PromptCancel

SpecPrompt == Init /\ [][NextPrompt]_vars

\* ---------------------------------------------------------------------------
\* Claims about the numeric prompts
\* ---------------------------------------------------------------------------

isPositive(text) == parseFloat(text) # None /\ ~notPositive(text)

\* A step that submits a positive number at the command line.
SubmitsPositive ==
  /\ lastOp' = "submitCommand"
  /\ \E text \in InputTexts : isPositive(text) /\ submitCommand(text)

\* C12: with the rectangle tool and a start point recorded, a positive width
\* submitted at the width prompt is followed by the height prompt, and a
\* positive height submitted there appends exactly one rectangle at the start
\* point with that width and height and clears the start point.
C12_RectangleByPrompts ==
  [][ /\ (/\ SubmitsPositive
          /\ currentTool = "rectangle"
          /\ startPoint # None
          /\ currentCommand = Some("width")) =>
            (/\ currentCommand' = Some("height")
             /\ startPoint' = startPoint
             /\ vectorObjects' = vectorObjects)
      /\ (/\ SubmitsPositive
          /\ currentTool = "rectangle"
          /\ startPoint # None
          /\ currentCommand = Some("height")) =>
            (/\ Len(vectorObjects') = Len(vectorObjects) + 1
             /\ SubSeq(vectorObjects', 1, Len(vectorObjects)) = vectorObjects
             /\ vectorObjects'[Len(vectorObjects')].type = "rectangle"
             /\ vectorObjects'[Len(vectorObjects')].x = startPoint[1].x
             /\ vectorObjects'[Len(vectorObjects')].y = startPoint[1].y
             /\ vectorObjects'[Len(vectorObjects')].width = commandCallback[1].userWidth
             /\ startPoint' = None) ]_vars
\* ---------------------------------------------------------------------------
\* SpecDimension: the dimension tool, physical clicks in the browser's order
\* and pointer motion between them
\* ---------------------------------------------------------------------------

DimensionTools == {"dimension"}

DimensionToolSelected ==
  \E tool \in DimensionTools :
    /\ setTool(tool)
    /\ gesture' = None
    /\ UNCHANGED <<phase, heldButton, pointerAt, eventCount, renderVars>>

BrowserMouseMove ==
  \E raw \in ScreenPoints :
    /\ phase = "idle"
    /\ onMouseMove(raw)
    /\ UNCHANGED <<pointerVars, renderVars>>

NextDimension ==
  \/ DimensionToolSelected
  \/ BrowserMouseDown
  \/ BrowserMouseUp
  \/ BrowserClick
  \/ BrowserContextMenu
  \/ BrowserMouseMove

SpecDimension == Init /\ [][NextDimension]_vars

\* The step that ends a physical left click begun with the dimension tool.
DimensionClickEnds ==
  /\ phase = "released" /\ phase' = "idle" /\ heldButton = 0
  /\ gesture # None /\ gesture[1].tool = "dimension"

CancelKeys == {"Escape", "p", "l", "d", "h"}

CancelKeyDown ==
  \E key \in CancelKeys :
    handleKeyDown(key, FALSE) /\ UNCHANGED <<pointerVars, renderVars>>

NextCancel ==
  \/ BrowserMouseDown
  \/ BrowserMouseUp
  \/ BrowserClick
  \/ BrowserContextMenu
  \/ CancelKeyDown

SpecCancel == Init /\ [][NextCancel]_vars

\* A construction is in progress.
InProgress ==
  \/ polylinePoints # <<>>
  \/ dimensionStart # None
  \/ dimensionSecondPoint # None
  \/ startPoint # None

\* All transient construction fields are clear.
AllClear ==
  /\ polylinePoints = <<>>
  /\ dimensionStart = None
  /\ dimensionSecondPoint = None
  /\ dimensionLinePosition = None
  /\ startPoint = None

\* C14: the Escape key pressed while a construction is in progress, and a
\* physical right click begun while a construction is in progress, leave
\* every transient construction field clear and the scene as it was.
C14_CancelClears ==
  [][ /\ (handleKeyDown("Escape", FALSE) /\ InProgress) =>
            (AllClear' /\ vectorObjects' = vectorObjects)
      /\ (/\ phase = "released" /\ phase' = "idle" /\ heldButton = 2
          /\ gesture # None
          /\ \/ gesture[1].len > 0
             \/ gesture[1].start # None
             \/ gesture[1].dim[1] # None
             \/ gesture[1].dim[2] # None) =>
            (AllClear' /\ vectorObjects' = vectorObjects) ]_vars
\* ---------------------------------------------------------------------------
\* Claims about rejected and cancelled prompts
\* ---------------------------------------------------------------------------

\* C15: a non-positive number submitted at a pending width, height or radius
\* prompt appends no object, pushes no history snapshot and clears the start
\* point.
C15_NonPositiveAborts ==
  [][ (/\ lastOp' = "submitCommand"
       /\ \E text \in InputTexts : notPositive(text) /\ submitCommand(text)
       /\ currentCommand # None
       /\ commandCallback # None
       /\ startPoint # None) =>
        (/\ vectorObjects' = vectorObjects
         /\ history' = history
         /\ historyIndex' = historyIndex
         /\ startPoint' = None) ]_vars

\* C16: Escape pressed in the command line while a prompt is pending leaves
\* no start point and no pending command, so that a later submit appends
\* nothing.
C16_CancelAborts ==
  [][ (/\ lastOp' = "cancelCommand"
       /\ commandEscape
       /\ currentCommand # None
       /\ startPoint # None) =>
        (/\ startPoint' = None
         /\ currentCommand' = None
         /\ commandCallback' = None
         /\ vectorObjects' = vectorObjects) ]_vars
\* ---------------------------------------------------------------------------
\* SpecScene: every handler that can touch the scene, invoked in any order:
\* pointer events, the command line and the keys of the container
\* ---------------------------------------------------------------------------

\* Raw canvas position of the pointer events here.
ScenePoints == { Pt(8, 9) }

SceneMouseDown ==
  \E button \in Buttons, raw \in ScenePoints :
    onMouseDown(button, raw) /\ UNCHANGED <<pointerVars, renderVars>>

\* Bound: canvas snapshots taken here.
MaxSceneSnapshots == 3

WithinSceneBounds ==
  /\ Len(vectorObjects) < MaxSceneObjects
  /\ snapCount < MaxSceneSnapshots

SceneClick ==
  \E button \in Buttons, raw \in ScenePoints :
    WithinSceneBounds /\ onClick(button, raw) /\ UNCHANGED <<pointerVars, renderVars>>

\* Texts typed at the command line here: a positive and a non-positive number.
SceneTexts == {"1", "0"}

SceneSubmit ==
  \E text \in SceneTexts :
    WithinSceneBounds /\ submitCommand(text) /\ UNCHANGED <<trace, pointerVars, renderVars>>

SceneMouseMove ==
  \E raw \in ScenePoints : onMouseMove(raw) /\ UNCHANGED <<pointerVars, renderVars>>

\* The keys pressed here: the tool shortcuts, and Delete with Ctrl held.
SceneKeys == {"Delete", "p", "l", "c", "d"}

SceneKeyDown ==
  \E key \in SceneKeys :
    /\ key = "Delete" => snapCount < MaxSceneSnapshots
    /\ handleKeyDown(key, key = "Delete")
    /\ UNCHANGED <<pointerVars, renderVars>>

NextScene ==
  \/ SceneMouseDown
  \/ MouseUp
  \/ SceneClick
  \/ SceneMouseMove
  \/ SceneSubmit
  \/ SceneKeyDown

SpecScene == Init /\ [][NextScene]_vars

\* C17: every step leaves the scene as it was, appends one object at its
\* end, or empties it; the objects already there keep their value and place.
C17_SceneAppendOrClear ==
  [][ \/ vectorObjects' = vectorObjects
      \/ vectorObjects' = <<>>
      \/ /\ Len(vectorObjects') = Len(vectorObjects) + 1
         /\ SubSeq(vectorObjects', 1, Len(vectorObjects)) = vectorObjects ]_vars
\* Two different objects are in the scene: the second was appended to a scene
\* that already held the first.
C17_Witness ==
  /\ Len(vectorObjects) = 2
  /\ vectorObjects[1] # vectorObjects[2]
\* ---------------------------------------------------------------------------
\* SpecUndo: lines and dimensions drawn with the pointer, Ctrl+Z and Ctrl+Y
\* ---------------------------------------------------------------------------

\* The keys pressed here: the line and dimension shortcuts, Ctrl+Z and Ctrl+Y.
UndoKeys == {"z", "y", "l", "d"}

UndoKeyDown ==
  \E key \in UndoKeys, ctrlKey \in BOOLEAN :
    handleKeyDown(key, ctrlKey) /\ UNCHANGED <<pointerVars, renderVars>>

NextUndo ==
  \/ SceneMouseDown
  \/ MouseUp
  \/ SceneClick
  \/ SceneMouseMove
  \/ UndoKeyDown

SpecUndo == Init /\ [][NextUndo]_vars

\* C18: Ctrl+Z and Ctrl+Y change the history index and the snapshot handed
\* back for painting, and nothing else: the history entries, the scene, the
\* construction state and the view transform stay as they were.
C18_UndoRedoFrame ==
  [][ (handleKeyDown("z", TRUE) \/ handleKeyDown("y", TRUE)) =>
        (/\ history' = history
         /\ vectorObjects' = vectorObjects
         /\ UNCHANGED <<currentTool, polylinePoints, isDrawing, dimensionStart,
                        dimensionSecondPoint, dimensionLinePosition, startPoint>>
         /\ UNCHANGED <<zoomLevel, panOffset>>) ]_vars

\* The commit of an object has been undone: the snapshot taken before the
\* commit was handed back, and the object is still in the scene.
C18_Witness ==
  /\ lastOp = "undo"
  /\ ret = Some(1)
  /\ historyIndex = 0
  /\ Len(history) = 2
  /\ Len(vectorObjects) = 1
\* ---------------------------------------------------------------------------
\* SpecTransform: a world point mapped to the screen as the drawing helpers do
\* and back as the pointer handlers do
\* ---------------------------------------------------------------------------

\* cad-store.js: const zoomMin = 0.1, const zoomMax = 10
zoomMin == Frac(1, 10)
zoomMax == Num(10)

\* Zoom levels from zoomMin to zoomMax, both included.
TransformZooms == { zoomMin, Frac(1, 3), Frac(5, 6), Num(1), Frac(6, 5), Num(7), zoomMax }

TransformPans == { Pt(Num(0), Num(0)), Pt(Num(7), Num(0 - 5)), Pt(Frac(0 - 88, 3), Num(22)) }

TransformCoordinates == { Num(0 - 40), Num(0), Frac(1, 3), Num(20), Frac(301, 7) }

TransformPoints == { Pt(x, y) : x \in TransformCoordinates, y \in {Num(0), Frac(0 - 9, 2)} }

InitTransform ==
  /\ history = <<1>>
  /\ historyIndex = 0
  /\ snapCount = 1
  /\ ret = None
  /\ discards = 0
  /\ trace = <<>>
  /\ SceneEmpty /\ ConfigDefault /\ ComponentIdle /\ PointerIdle
  /\ zoomLevel \in TransformZooms
  /\ panOffset \in TransformPans
  /\ snapIn = Pt(Num(0), Num(0))
  /\ snapOut = None
  /\ snapPrev = None
  /\ worldIn \in TransformPoints
  /\ screenOut = None
  /\ worldBack = None
  /\ wheelCount = 0
  /\ RenderIdle
  /\ lastOp = "init"

transformFrame ==
  <<histVars, sceneVars, configVars, viewVars, compVars, pointerVars,
    snapIn, snapOut, snapPrev, wheelCount, renderVars>>

\* The drawing helpers place the world point on the screen.
MapToScreen ==
  /\ screenOut = None
  /\ screenOut' = Some(worldToScreen(worldIn))
  /\ lastOp' = "worldToScreen"
  /\ UNCHANGED <<worldIn, worldBack>>
  /\ UNCHANGED transformFrame

\* The pointer handlers read that screen position back.
MapToWorld ==
  /\ screenOut # None
  /\ worldBack = None
  /\ worldBack' = Some(screenToWorld(screenOut[1]))
  /\ lastOp' = "screenToWorld"
  /\ UNCHANGED <<worldIn, screenOut>>
  /\ UNCHANGED transformFrame

NextTransform == MapToScreen \/ MapToWorld

SpecTransform == InitTransform /\ [][NextTransform]_vars

\* C19: a world point mapped to the screen (world * zoom + pan) and back
\* ((screen - pan) / zoom) is the point itself, for every pan offset and
\* every zoom level from zoomMin to zoomMax.
C19_TransformRoundTrip ==
  worldBack # None => worldBack[1] = worldIn

\* A point off the origin has made the round trip under a zoom other than 1
\* and a pan other than zero, landing elsewhere on the screen.
C19_Witness ==
  /\ worldBack # None
  /\ zoomLevel = zoomMin
  /\ panOffset # Pt(Num(0), Num(0))
  /\ worldIn.x # Num(0)
  /\ screenOut[1] # worldIn
\* ---------------------------------------------------------------------------
\* Component: the wheel
\* ---------------------------------------------------------------------------

\* Math.min, Math.max on numbers.
MathMin(a, b) == IF LessEq(a, b) THEN a ELSE b
MathMax(a, b) == IF LessEq(a, b) THEN b ELSE a

\* The factor of one wheel notch, 1.2.
zoomStep == Frac(6, 5)

\* WheelEvent.deltaY: negative zooms in, anything else zooms out.
WheelDeltas == {0 - 100, 100}

\* newZoom of onWheel without Math.min and Math.max.
wheelZoomUnclamped(deltaY) ==
  IF deltaY < 0
    THEN Times(zoomLevel, zoomStep)
    ELSE Over(zoomLevel, zoomStep)

\* newZoom of onWheel.
wheelZoom(deltaY) ==
  IF deltaY < 0
    THEN MathMin(Times(zoomLevel, zoomStep), zoomMax)
    ELSE MathMax(Over(zoomLevel, zoomStep), zoomMin)

\* setZoom(level) of the store: the level it stores.
setZoom(level) == MathMax(zoomMin, MathMin(level, zoomMax))

\* setPanOffset(x, y) of the store: the offset it stores.
setPanOffset(x, y) == Pt(x, y)

\* onWheel(event)
onWheel(raw, deltaY) ==
  \E world \in { screenToWorld(Pt(Num(raw.x), Num(raw.y))) } :
    /\ zoomLevel' = setZoom(wheelZoom(deltaY))
    /\ panOffset' = setPanOffset(
         Minus(Num(raw.x), Times(world.x, wheelZoom(deltaY))),
         Minus(Num(raw.y), Times(world.y, wheelZoom(deltaY))))
    /\ lastOp' = "event"
    /\ UNCHANGED <<histVars, sceneVars, configVars, compVars>>
    /\ UNCHANGED <<snapIn, snapOut, snapPrev, worldIn, screenOut, worldBack>>

\* ---------------------------------------------------------------------------
\* SpecZoom: wheel events on the canvas
\* ---------------------------------------------------------------------------

\* Bound: wheel events handled.
MaxWheels == 3

\* Zoom levels the toolbar's zoom buttons lead to: the default and both limits.
ZoomLevels == { zoomMin, Num(1), zoomMax }

\* Pan offsets: the default, and one left by a pan drag.
ZoomPans == { Pt(Num(0), Num(0)), Pt(Num(7), Num(0 - 5)) }

InitZoom ==
  /\ history = <<1>>
  /\ historyIndex = 0
  /\ snapCount = 1
  /\ ret = None
  /\ discards = 0
  /\ trace = <<>>
  /\ SceneEmpty /\ ConfigDefault /\ ComponentIdle /\ PointerIdle
  /\ zoomLevel \in ZoomLevels
  /\ panOffset \in ZoomPans
  /\ ProbeIdle
  /\ lastOp = "init"

Wheel ==
  \E raw \in ScreenPoints, deltaY \in WheelDeltas :
    /\ wheelCount < MaxWheels
    /\ onWheel(raw, deltaY)
    /\ wheelCount' = wheelCount + 1
    /\ UNCHANGED <<pointerVars, renderVars>>

NextZoom == Wheel

SpecZoom == InitZoom /\ [][NextZoom]_vars

\* C20: a wheel event at a cursor position, zooming in or out, leaves the
\* world point under that position where it was, also when the new zoom
\* level is held at zoomMin or zoomMax.
C20_ZoomKeepsCursorPoint ==
  [][ \A raw \in ScreenPoints, deltaY \in WheelDeltas :
        onWheel(raw, deltaY) =>
          /\ Over(Minus(Num(raw.x), panOffset'.x), zoomLevel')
               = Over(Minus(Num(raw.x), panOffset.x), zoomLevel)
          /\ Over(Minus(Num(raw.y), panOffset'.y), zoomLevel')
               = Over(Minus(Num(raw.y), panOffset.y), zoomLevel)
          /\ LessEq(zoomMin, zoomLevel') /\ LessEq(zoomLevel', zoomMax) ]_vars

\* One wheel event has been handled at zoomMax with a pan offset other than
\* zero: it zoomed in and the new level was held at zoomMax.
C20_Witness ==
  /\ wheelCount = 1
  /\ zoomLevel = zoomMax
  /\ panOffset # Pt(Num(0), Num(0))

\* ---------------------------------------------------------------------------
\* Store: zoom actions (cad-store.js)
\* ---------------------------------------------------------------------------

\* What a zoom action of the store leaves alone.
zoomFrame ==
  /\ lastOp' = "event"
  /\ UNCHANGED <<histVars, sceneVars, configVars, compVars, panOffset>>
  /\ UNCHANGED <<snapIn, snapOut, snapPrev, worldIn, screenOut, worldBack>>

\* zoomIn() without Math.min.
zoomInUnclamped ==
  /\ zoomLevel' = Times(zoomLevel, zoomStep)
  /\ zoomFrame

\* zoomIn()
zoomIn ==
  /\ zoomLevel' = MathMin(Times(zoomLevel, zoomStep), zoomMax)
  /\ zoomFrame

\* zoomOut()
zoomOut ==
  /\ zoomLevel' = MathMax(Over(zoomLevel, zoomStep), zoomMin)
  /\ zoomFrame

\* setZoom(level) as an action of the store.
storeSetZoom(level) ==
  /\ zoomLevel' = setZoom(level)
  /\ zoomFrame

\* resetZoom()
resetZoom ==
  /\ zoomLevel' = Num(1)
  /\ zoomFrame

\* ---------------------------------------------------------------------------
\* SpecZoomLevel: the zoom buttons, setZoom and the wheel, in any order
\* ---------------------------------------------------------------------------

\* Levels passed to setZoom: below, at, between and above the limits.
SetZoomLevels == { Num(0 - 1), Num(0), Frac(1, 20), zoomMin, Frac(1, 2), Num(9),
                   zoomMax, Num(25) }

\* One more zoom event is counted.
CountZoom ==
  /\ wheelCount < MaxWheels
  /\ wheelCount' = wheelCount + 1
  /\ UNCHANGED <<pointerVars, renderVars>>

ZoomIn == CountZoom /\ zoomIn

ZoomOut == CountZoom /\ zoomOut

SetZoom == \E level \in SetZoomLevels : CountZoom /\ storeSetZoom(level)

ResetZoom == CountZoom /\ resetZoom

NextZoomLevel == ZoomIn \/ ZoomOut \/ SetZoom \/ ResetZoom \/ Wheel

SpecZoomLevel == InitZoom /\ [][NextZoomLevel]_vars

\* zoomMin <= zoomLevel <= zoomMax
zoomInRange(level) == LessEq(zoomMin, level) /\ LessEq(level, zoomMax)

\* The level one step up: multiplied by 1.2, or zoomMax when that is beyond it.
steppedUp(level) ==
  IF LessEq(Times(level, zoomStep), zoomMax) THEN Times(level, zoomStep) ELSE zoomMax

\* The level one step down: divided by 1.2, or zoomMin when that is below it.
steppedDown(level) ==
  IF LessEq(zoomMin, Over(level, zoomStep)) THEN Over(level, zoomStep) ELSE zoomMin

\* C21: zoomLevel is within [0.1, 10] in every state; zoomIn and a wheel
\* notch up multiply it by 1.2, zoomOut and a wheel notch down divide it by
\* 1.2, unless the result is beyond a limit, and then it is that limit.
C21_ZoomClamped ==
  /\ []zoomInRange(zoomLevel)
  /\ [][ /\ zoomIn => zoomLevel' = steppedUp(zoomLevel)
         /\ zoomOut => zoomLevel' = steppedDown(zoomLevel)
         /\ \A raw \in ScreenPoints, deltaY \in WheelDeltas :
              onWheel(raw, deltaY) =>
                zoomLevel' = IF deltaY < 0 THEN steppedUp(zoomLevel)
                                           ELSE steppedDown(zoomLevel) ]_vars

\* Both cases have happened: the level is 1.44 after two unclamped steps up
\* from 1, or it is held at zoomMax after a step up from 9.
C21_Witness ==
  /\ wheelCount >= 2
  /\ zoomLevel \in { Frac(36, 25), zoomMax }
  /\ lastOp = "event"

\* ---------------------------------------------------------------------------
\* Component: what the handlers leave on the main canvas
\*
\* The handlers above change the store and the component; these definitions
\* add the canvas of the same handler run. A watcher's redraw runs after the
\* handler has returned and before the next event. Specifications that are
\* not about drawing leave canvas and savedImage as they are.
\* ---------------------------------------------------------------------------

\* redraws: some redrawCanvas() runs, called by the handler or by a watcher.
\* redrawsBeforeSave: the handler calls redrawCanvas() before its saveState().
\* preview: what the handler draws on the canvas after its redrawCanvas().
Paint(redraws, redrawsBeforeSave, preview) ==
  \E redrawn \in { redrawCanvasOf(vectorObjects', polylinePoints', gridSize',
                                  lineColor', lineWidth', panOffset', zoomLevel') } :
    /\ canvas' = IF redraws THEN redrawn \o preview ELSE canvas
    /\ savedImage' = IF snapCount' # snapCount
                       THEN Some(IF redrawsBeforeSave THEN redrawn ELSE canvas)
                       ELSE savedImage
    /\ UNCHANGED mountVars

\* refreshCanvas(): redrawCanvas(), then saveState().
paintedRefreshCanvas == refreshCanvas /\ Paint(TRUE, TRUE, <<>>)

\* setTool(tool) from the toolbar: assigning polylinePoints wakes its watcher.
paintedSetTool(tool) == setTool(tool) /\ Paint(tool # "polyline", FALSE, <<>>)

\* onMouseDown(event): addPolylinePoint wakes the watcher of polylinePoints.
paintedOnMouseDown(button, raw) ==
  /\ onMouseDown(button, raw)
  /\ Paint(polylinePoints' # polylinePoints, FALSE, <<>>)

\* Some construction field of the right click's and Escape's cancel is set.
cancelRedraws ==
  \/ startPoint # None
  \/ dimensionStart # None
  \/ dimensionSecondPoint # None
  \/ dimensionLinePosition # None

\* The click that places a dimension: redrawCanvas() comes before saveState().
placesDimension(button) ==
  /\ button = 0
  /\ currentTool = "dimension"
  /\ dimensionStart # None
  /\ dimensionSecondPoint # None
  /\ dimensionLinePosition # None

\* onClick(event): the watchers of vectorObjects and polylinePoints, and the
\* redrawCanvas() calls of the dimension branch and of the right click.
paintedOnClick(button, raw) ==
  /\ onClick(button, raw)
  /\ Paint(\/ vectorObjects' # vectorObjects
           \/ polylinePoints' # polylinePoints
           \/ button = 2 /\ cancelRedraws,
           placesDimension(button), <<>>)

\* A preview that draws the rectangle normalised: from its upper left corner,
\* with the absolute width and height.
previewNormalised(snapped) ==
  IF currentTool = "rectangle" /\ startPoint # None
    THEN LET low(a, b) == IF LessEq(a, b) THEN a ELSE b
             high(a, b) == IF LessEq(a, b) THEN b ELSE a
         IN  <<drawRectangleWithConstantWidth(
                 low(startPoint[1].x, snapped.x), low(startPoint[1].y, snapped.y),
                 Minus(high(startPoint[1].x, snapped.x), low(startPoint[1].x, snapped.x)),
                 Minus(high(startPoint[1].y, snapped.y), low(startPoint[1].y, snapped.y)),
                 lineColor, lineWidth, FALSE, panOffset, zoomLevel)>>
    ELSE <<>>

\* What onMouseMove draws on the main canvas after its redrawCanvas().
preview(snapped) ==
  IF currentTool = "line" /\ startPoint # None
    THEN <<drawLineWithConstantWidth(startPoint[1].x, startPoint[1].y, snapped.x,
                                     snapped.y, lineColor, lineWidth, panOffset,
                                     zoomLevel)>>
  ELSE IF currentTool = "rectangle" /\ startPoint # None
    THEN <<drawRectangleWithConstantWidth(startPoint[1].x, startPoint[1].y,
                                          Minus(snapped.x, startPoint[1].x),
                                          Minus(snapped.y, startPoint[1].y),
                                          lineColor, lineWidth, FALSE, panOffset,
                                          zoomLevel)>>
  ELSE IF currentTool = "circle" /\ startPoint # None
    THEN <<drawCircleSquared(startPoint[1].x, startPoint[1].y,
                             squaredDistance(startPoint[1], snapped),
                             lineColor, lineWidth, FALSE, panOffset, zoomLevel)>>
  ELSE IF /\ currentTool = "dimension"
          /\ dimensionStart # None
          /\ dimensionSecondPoint # None
    THEN <<drawAutoCADDimension(dimensionStart[1], dimensionSecondPoint[1], snapped,
                                lineColor, lineWidth, panOffset, zoomLevel)>>
  ELSE IF currentTool = "dimension" /\ dimensionStart # None
    THEN <<drawLineWithConstantWidth(dimensionStart[1].x, dimensionStart[1].y,
                                     snapped.x, snapped.y, lineColor, lineWidth,
                                     panOffset, zoomLevel)>>
  ELSE <<>>

\* onMouseMove(event): a pan redraws; otherwise the canvas is redrawn and the
\* preview drawn on it while a start point or a dimension start is set.
paintedOnMouseMove(raw) ==
  \E snapped \in { getSnappedPosition(getMousePos(raw)).position } :
  \E drawn \in { preview(snapped) } :
    /\ onMouseMoveAt(raw, snapped)
    /\ IF isPanning /\ currentTool = "select"
         THEN Paint(TRUE, FALSE, <<>>)
         ELSE Paint(startPoint # None \/ dimensionStart # None, FALSE, drawn)

\* submitCommand(): addVectorObject in a callback wakes the watcher.
paintedSubmitCommand(text) ==
  submitCommand(text) /\ Paint(vectorObjects' # vectorObjects, FALSE, <<>>)

\* Escape in the command line: handleEscape redraws when it runs.
paintedCommandEscape ==
  /\ commandEscape
  /\ Paint(toLowerCase("Escape") \in keyboardShortcuts /\ cancelRedraws, FALSE, <<>>)

\* restoreCanvasState(ctx, imageData): the canvas shows that snapshot.
restoreCanvasState(imageData) == <<[op |-> "image", snapshot |-> imageData]>>

\* handleKeyDown(event)
paintedHandleKeyDown(key, ctrlKey) ==
  /\ handleKeyDown(key, ctrlKey)
  /\ LET k == toLowerCase(key)
     IN  IF ctrlKey /\ k \in {"z", "y"}
           THEN /\ canvas' = IF ret' # None THEN restoreCanvasState(ret'[1]) ELSE canvas
                /\ UNCHANGED <<savedImage, mountVars>>
         ELSE IF ctrlKey /\ k = "delete" THEN Paint(TRUE, TRUE, <<>>)
         ELSE IF k \notin keyboardShortcuts THEN UNCHANGED renderVars
         ELSE IF k \in {"v", "p", "l", "r", "c", "d"}
           THEN Paint(shortcutTool(k) # "polyline", FALSE, <<>>)
         ELSE IF k = "Escape" THEN Paint(cancelRedraws, FALSE, <<>>)
         ELSE IF k = "f5" THEN Paint(TRUE, TRUE, <<>>)
         ELSE UNCHANGED renderVars

\* onWheel(event): redrawCanvas() at its end.
paintedOnWheel(raw, deltaY) == onWheel(raw, deltaY) /\ Paint(TRUE, FALSE, <<>>)

\* setGridSize(size) of the store, from the grid settings of the toolbar.
setGridSize(size) ==
  /\ gridSize' = IF size >= 5 /\ size <= 100 THEN size ELSE gridSize
  /\ lastOp' = "event"
  /\ UNCHANGED <<snapToGrid, snapToPoints, snapToLines, snapTolerance, lineColor,
                 lineWidth>>
  /\ UNCHANGED <<histVars, sceneVars, viewVars, compVars, probeVars>>

\* The watcher of gridSize redraws when the value has changed.
paintedSetGridSize(size) ==
  setGridSize(size) /\ Paint(gridSize' # gridSize, FALSE, <<>>)

\* ---------------------------------------------------------------------------
\* SpecDimensionText: one dimension in the scene, redrawn at several views
\* ---------------------------------------------------------------------------

\* End points of the dimension.
DimensionEnds ==
  { Pt(Num(0), Num(0)), Pt(Num(300), Num(400)), Pt(Num(20), Num(0)),
    Pt(Frac(41, 2), Num(1)), Pt(Num(0 - 7), Num(3)) }

\* Views the scene is redrawn at.
DimensionZooms == { Frac(1, 2), Num(1), Num(2) }

InitDimensionText ==
  /\ history = <<1>>
  /\ historyIndex = 0
  /\ snapCount = 1
  /\ ret = None
  /\ discards = 0
  /\ trace = <<>>
  /\ currentTool = "select"
  /\ \E point1 \in DimensionEnds, point2 \in DimensionEnds :
       vectorObjects = << [type |-> "dimension", point1 |-> point1, point2 |-> point2,
                           dimensionLinePos |-> Pt(Num(40), Num(40)),
                           color |-> "#000000", lineWidth |-> 2] >>
  /\ polylinePoints = <<>>
  /\ isDrawing = FALSE
  /\ dimensionStart = None
  /\ dimensionSecondPoint = None
  /\ dimensionLinePosition = None
  /\ ConfigDefault /\ ComponentIdle /\ PointerIdle
  /\ zoomLevel \in DimensionZooms
  /\ panOffset \in ZoomPans
  /\ ProbeIdle
  /\ lastOp = "init"

\* F5 on the canvas container.
Refresh ==
  /\ snapCount < MaxSnapshots
  /\ paintedRefreshCanvas
  /\ UNCHANGED pointerVars

NextDimensionText == ZoomIn \/ ZoomOut \/ Refresh

SpecDimensionText == InitDimensionText /\ [][NextDimensionText]_vars

\* v is the nearest integer to the square root of q.
nearestToRoot(v, q) ==
  /\ v >= 0
  /\ v > 0 => LessEq(Num((2 * v - 1) * (2 * v - 1)), Times(Num(4), q))
  /\ LessEq(Times(Num(4), q), Num((2 * v + 1) * (2 * v + 1)))

\* C22: the text every redraw gives the dimension is the distance between
\* point1 and point2 in world units rounded to the nearest integer, at every
\* zoom level and pan offset; between (0,0) and (300,400) it is 500.
C22_DimensionText ==
  \A i \in 1..Len(canvas) :
    canvas[i].op = "dimension" =>
      /\ nearestToRoot(canvas[i].text.value,
                       squaredDistance(vectorObjects[1].point1, vectorObjects[1].point2))
      /\ (/\ vectorObjects[1].point1 = Pt(Num(0), Num(0))
          /\ vectorObjects[1].point2 = Pt(Num(300), Num(400))) =>
            canvas[i].text.value = 500

\* The dimension between (0,0) and (300,400) has been redrawn by a refresh at
\* a zoom level other than 1 and a pan offset other than zero, and reads 500.
C22_Witness ==
  /\ savedImage # None
  /\ zoomLevel # Num(1)
  /\ panOffset # Pt(Num(0), Num(0))
  /\ vectorObjects[1].point1 = Pt(Num(0), Num(0))
  /\ vectorObjects[1].point2 = Pt(Num(300), Num(400))
  /\ canvas = redrawCanvas
  /\ \E i \in 1..Len(canvas) :
       canvas[i].op = "dimension" /\ canvas[i].text.value = 500

\* ---------------------------------------------------------------------------
\* SpecRectangle: the rectangle tool with its preview and its prompts
\* ---------------------------------------------------------------------------

RectangleTools == {"rectangle"}

RectangleToolSelected ==
  \E tool \in RectangleTools : paintedSetTool(tool) /\ UNCHANGED pointerVars

PaintedMouseDown ==
  \E button \in Buttons, raw \in ScreenPoints :
    paintedOnMouseDown(button, raw) /\ UNCHANGED pointerVars

PaintedMouseUp == onMouseUp /\ UNCHANGED <<pointerVars, renderVars>>

PaintedMouseMove ==
  \E raw \in ScreenPoints : paintedOnMouseMove(raw) /\ UNCHANGED pointerVars

PaintedClick ==
  \E button \in Buttons, raw \in ScreenPoints :
    WithinBounds /\ paintedOnClick(button, raw) /\ UNCHANGED pointerVars

PaintedSubmit ==
  \E text \in InputTexts :
    WithinBounds /\ paintedSubmitCommand(text) /\ UNCHANGED <<trace, pointerVars>>

PaintedCancel == paintedCommandEscape /\ UNCHANGED pointerVars

NextRectangle ==
  \/ RectangleToolSelected
  \/ PaintedMouseDown
  \/ PaintedMouseUp
  \/ PaintedMouseMove
  \/ PaintedClick
  \/ PaintedSubmit
  \/ PaintedCancel

SpecRectangle == Init /\ [][NextRectangle]_vars

\* A step that submits a negative number at a prompt of the rectangle tool.
SubmitsNegativeSize ==
  /\ lastOp' = "submitCommand"
  /\ \E text \in InputTexts :
       /\ notPositive(text)
       /\ callbackValue(text) # Num(0)
       /\ paintedSubmitCommand(text)
  /\ currentTool = "rectangle"
  /\ startPoint # None
  /\ currentCommand \in {Some("width"), Some("height")}
  /\ commandCallback # None

\* C23 as stated: a negative width is taken as given (the height prompt
\* follows with that width), and a negative height appends the rectangle with
\* the signed width and height.
C23_SignedSizeStored ==
  [][ SubmitsNegativeSize =>
        \E text \in InputTexts :
          /\ notPositive(text)
          /\ paintedSubmitCommand(text)
          /\ IF currentCommand = Some("width")
               THEN /\ currentCommand' = Some("height")
                    /\ commandCallback' =
                         Some([kind |-> "height", userWidth |-> callbackValue(text)])
               ELSE /\ Len(vectorObjects') = Len(vectorObjects) + 1
                    /\ vectorObjects'[Len(vectorObjects')].type = "rectangle"
                    /\ vectorObjects'[Len(vectorObjects')].width
                         = commandCallback[1].userWidth
                    /\ vectorObjects'[Len(vectorObjects')].height
                         = callbackValue(text) ]_vars

\* The last draw call on the canvas is a rectangle with this origin and size.
previewIs(at, width, height) ==
  /\ canvas # <<>>
  /\ canvas[Len(canvas)].op = "rect"
  /\ canvas[Len(canvas)].at = at
  /\ canvas[Len(canvas)].width = width
  /\ canvas[Len(canvas)].height = height

\* C23, amended: a negative number submitted at a prompt of the rectangle tool
\* appends nothing, pushes no snapshot and closes the prompt; the signed width
\* and height (end point minus start point) are those of the preview, which
\* pointer motion draws from the start point as they are.
C23_NegativeSizeOnlyPreviewed ==
  [][ /\ SubmitsNegativeSize =>
           /\ vectorObjects' = vectorObjects
           /\ snapCount' = snapCount
           /\ currentCommand' = None
      /\ \A raw \in ScreenPoints :
           (/\ paintedOnMouseMove(raw)
            /\ currentTool = "rectangle"
            /\ startPoint # None) =>
             \E snapped \in { getSnappedPosition(getMousePos(raw)).position } :
               previewIs(toScreen(startPoint[1].x, startPoint[1].y, panOffset, zoomLevel),
                         Times(Minus(snapped.x, startPoint[1].x), zoomLevel),
                         Times(Minus(snapped.y, startPoint[1].y), zoomLevel))' ]_vars

\* A preview with a negative width and height is on the canvas, and a number
\* submitted at the prompt of that rectangle has appended nothing.
C23_Witness ==
  /\ lastOp = "submitCommand"
  /\ currentTool = "rectangle"
  /\ startPoint # None
  /\ currentCommand = None
  /\ vectorObjects = <<>>
  /\ canvas # <<>>
  /\ canvas[Len(canvas)].op = "rect"
  /\ ~LessEq(Num(0), canvas[Len(canvas)].width)
  /\ ~LessEq(Num(0), canvas[Len(canvas)].height)

\* ---------------------------------------------------------------------------
\* The store as created: CADTest's checks of the initial state
\* ---------------------------------------------------------------------------

\* canvasWidth, canvasHeight of the store; no action writes them.
canvasWidth == 1200
canvasHeight == 800

\* colorOptions of the store.
colorOptionsWithoutGray ==
  <<"#000000", "#FF0000", "#00FF00", "#0000FF", "#FFFF00", "#FF00FF", "#00FFFF">>
colorOptions ==
  <<"#000000", "#FF0000", "#00FF00", "#0000FF",
    "#FFFF00", "#FF00FF", "#00FFFF", "#808080">>

\* The results CADTest's onMounted pushes for tests 2 to 7, read from the store.
tests ==
  <<currentTool = "select",
    lineWidth = 2,
    lineColor = "#000000",
    canvasWidth = 1200 /\ canvasHeight = 800,
    Len(colorOptions) = 8,
    ~canUndo(history, historyIndex) /\ ~canRedo(history, historyIndex)>>

\* C24: the store as created has the tool 'select', line width 2, line colour
\* #000000, a canvas of 1200 by 800, 8 colour options and an empty history
\* with canUndo and canRedo both false: every test of CADTest passes on it.
C24_FreshStore ==
  lastOp = "init" =>
    /\ history = <<>>
    /\ \A i \in DOMAIN tests : tests[i]

\* The store as created, before any snapshot is pushed.
C24_Witness ==
  /\ lastOp = "init"
  /\ historyIndex = -1
  /\ currentTool = "select"
  /\ Len(tests) = 6

\* ---------------------------------------------------------------------------
\* SpecRender: the drawing tools with what their handlers paint, invoked in
\* any order
\* ---------------------------------------------------------------------------

\* The keys pressed here: the shortcuts of the drawing tools.
RenderKeys == {"p", "l", "c", "d"}

RenderKeyDown ==
  \E key \in RenderKeys : paintedHandleKeyDown(key, FALSE) /\ UNCHANGED pointerVars

RenderMouseDown ==
  \E button \in Buttons, raw \in ScenePoints :
    paintedOnMouseDown(button, raw) /\ UNCHANGED pointerVars

RenderMouseMove ==
  \E raw \in ScenePoints : paintedOnMouseMove(raw) /\ UNCHANGED pointerVars

RenderClick ==
  \E button \in Buttons, raw \in ScenePoints :
    WithinBounds /\ paintedOnClick(button, raw) /\ UNCHANGED pointerVars

RenderSubmit ==
  \E text \in SceneTexts :
    WithinBounds /\ paintedSubmitCommand(text) /\ UNCHANGED <<trace, pointerVars>>

NextRender ==
  \/ RenderKeyDown
  \/ RenderMouseDown
  \/ PaintedMouseUp
  \/ RenderMouseMove
  \/ RenderClick
  \/ RenderSubmit

SpecRender == Init /\ [][NextRender]_vars

\* A step that appends an object and pushes the snapshot of that commit.
CommitStep ==
  /\ Len(vectorObjects') = Len(vectorObjects) + 1
  /\ snapCount' = snapCount + 1

\* C25: the snapshot pushed for a commit is the picture of the scene with the
\* new object in it: the canvas as the redraw after the append paints it.
C25_SnapshotDepictsCommit ==
  [][ CommitStep =>
        \E redrawn \in { redrawCanvasOf(vectorObjects', polylinePoints', gridSize',
                                        lineColor', lineWidth', panOffset',
                                        zoomLevel') } :
          savedImage' = Some(redrawn) ]_vars

\* ---------------------------------------------------------------------------
\* Claims about the polyline commit in the browser's event order
\* ---------------------------------------------------------------------------

\* The step that ends a physical right click begun with the polyline tool and
\* two or more active points.
PolylineRightClickEnds ==
  /\ phase = "released" /\ phase' = "idle" /\ heldButton = 2
  /\ gesture # None
  /\ gesture[1].tool = "polyline"
  /\ gesture[1].len >= 2

\* C26: with the polyline tool and at least two active points, a physical
\* right click (mousedown, mouseup, then the event the browser sends for the
\* right button) appends the polyline object and empties the active points.
C26_RightClickCommits ==
  [][ PolylineRightClickEnds =>
        /\ Len(vectorObjects') = Len(vectorObjects) + 1
        /\ vectorObjects'[Len(vectorObjects')].type = "polyline"
        /\ polylinePoints' = <<>> ]_vars

\* ---------------------------------------------------------------------------
\* SpecCommit: the input events of the component, committing or not, in any
\* order, in runs of a bounded number of events
\* ---------------------------------------------------------------------------

\* Bound: input events handled in one run.
MaxEvents == 6

\* One more input event is counted.
CountedEvent ==
  /\ eventCount < MaxEvents
  /\ eventCount' = eventCount + 1
  /\ UNCHANGED <<phase, heldButton, pointerAt, gesture, renderVars>>

Counted == CountedEvent /\ UNCHANGED wheelCount

\* A run takes one zoom step (a wheel notch, zoom in or zoom out), which
\* keeps the exact coordinates of what is snapped afterwards within the
\* integer width; resetZoom is taken at any time.
CountedZoom ==
  /\ CountedEvent
  /\ wheelCount = 0
  /\ wheelCount' = wheelCount + 1

\* The keys pressed here: the tool shortcuts, Escape, F5, and Delete, z and y
\* with Ctrl held.
CommitKeys == {"v", "p", "l", "c", "d", "Escape", "F5", "Delete", "z", "y"}

CommitKeyDown ==
  \E key \in CommitKeys :
    Counted /\ handleKeyDown(key, key \in {"Delete", "z", "y"})

CommitMouseDown ==
  \E button \in Buttons, raw \in ScenePoints : Counted /\ onMouseDown(button, raw)

CommitMouseUp == Counted /\ onMouseUp

CommitMouseMove == \E raw \in ScreenPoints : Counted /\ onMouseMove(raw)

CommitClick ==
  \E button \in Buttons, raw \in ScenePoints : Counted /\ onClick(button, raw)

CommitSubmit ==
  \E text \in SceneTexts : Counted /\ submitCommand(text) /\ UNCHANGED trace

CommitCancel == Counted /\ commandEscape

CommitWheel ==
  \E raw \in ScenePoints, deltaY \in WheelDeltas : CountedZoom /\ onWheel(raw, deltaY)

\* The zoom buttons of the layout.
CommitZoomButton == (CountedZoom /\ (zoomIn \/ zoomOut)) \/ (Counted /\ resetZoom)

NextCommit ==
  \/ CommitKeyDown
  \/ CommitMouseDown
  \/ CommitMouseUp
  \/ CommitMouseMove
  \/ CommitClick
  \/ CommitSubmit
  \/ CommitCancel
  \/ CommitWheel
  \/ CommitZoomButton

SpecCommit == Init /\ [][NextCommit]_vars

\* A step of a committing action: an object is appended, or the canvas is
\* cleared (Ctrl+Delete) or refreshed (F5).
CommittingStep ==
  \/ Len(vectorObjects') = Len(vectorObjects) + 1
  \/ handleKeyDown("Delete", TRUE)
  \/ handleKeyDown("F5", FALSE)

\* Exactly one snapshot, a new one, is pushed after the current entry.
PushesOneSnapshot ==
  /\ snapCount' = snapCount + 1
  /\ history' = Append(Slice0(history, historyIndex + 1), snapCount')
  /\ historyIndex' = Len(history') - 1

\* C27: every committing action (an object appended, clear, refresh) pushes
\* exactly one snapshot, and every other input event (pointer motion, pan,
\* zoom, tool switch, cancel, undo, redo, a rejected prompt) pushes none: the
\* history entries stay as they were.
C27_OneSnapshotPerCommit ==
  [][ IF CommittingStep
        THEN PushesOneSnapshot
        ELSE history' = history /\ snapCount' = snapCount ]_vars

\* A dimension has been placed with the view zoomed and its snapshot is the
\* only one pushed since the component was mounted.
C27_Witness ==
  /\ vectorObjects # <<>>
  /\ vectorObjects[Len(vectorObjects)].type = "dimension"
  /\ zoomLevel # Num(1)
  /\ panOffset # Pt(Num(0), Num(0))
  /\ history = <<1, 2>>
  /\ historyIndex = 1

\* ---------------------------------------------------------------------------
\* SpecRedraw: the view (zoom, pan with the select tool) and the grid, with
\* what is painted
\* ---------------------------------------------------------------------------

RedrawWheel ==
  \E raw \in ScenePoints, deltaY \in WheelDeltas :
    /\ wheelCount < MaxWheels
    /\ wheelCount' = wheelCount + 1
    /\ paintedOnWheel(raw, deltaY)
    /\ UNCHANGED pointerVars

\* Grid sizes chosen in the toolbar.
GridSizes == {20, 40}

RedrawGridSize ==
  \E size \in GridSizes : paintedSetGridSize(size) /\ UNCHANGED pointerVars

\* ZoomIn, ZoomOut and ResetZoom are the zoom buttons of MainLayout: each
\* calls the store's action and nothing else.
NextRedraw ==
  \/ RenderMouseDown
  \/ PaintedMouseUp
  \/ PaintedMouseMove
  \/ RedrawWheel
  \/ RedrawGridSize
  \/ ZoomIn
  \/ ZoomOut
  \/ ResetZoom

SpecRedraw == Init /\ [][NextRedraw]_vars

\* The canvas begins with the draw calls of a redraw of this state.
showsRedrawOf(shown, redrawn) ==
  /\ Len(shown) >= Len(redrawn)
  /\ SubSeq(shown, 1, Len(redrawn)) = redrawn

\* C28: a step that changes the scene, the zoom level, the pan offset or the
\* grid size leaves the main canvas redrawn from the new state (a preview may
\* be drawn on top), the zoom buttons of the layout included.
C28_RedrawFollowsChange ==
  [][ (\/ vectorObjects' # vectorObjects
       \/ zoomLevel' # zoomLevel
       \/ panOffset' # panOffset
       \/ gridSize' # gridSize) =>
        \E redrawn \in { redrawCanvasOf(vectorObjects', polylinePoints', gridSize',
                                        lineColor', lineWidth', panOffset',
                                        zoomLevel') } :
          showsRedrawOf(canvas', redrawn) ]_vars

\* ---------------------------------------------------------------------------
\* Claims about what a redraw draws
\* ---------------------------------------------------------------------------

\* C29: a redraw issues one draw call for every object of the scene, in
\* insertion order, whatever its type: the draw calls of the objects are as
\* many as the objects, the i-th being that of the i-th object, a completed
\* polyline included.
C29_RedrawDrawsEveryObject ==
  /\ Len(drawObjects(vectorObjects, panOffset, zoomLevel)) = Len(vectorObjects)
  /\ \A i \in DOMAIN vectorObjects :
       /\ drawObject(vectorObjects[i], panOffset, zoomLevel) # None
       /\ drawObjects(vectorObjects, panOffset, zoomLevel)[i]
            = drawObject(vectorObjects[i], panOffset, zoomLevel)[1]

\* ---------------------------------------------------------------------------
\* Claims about the construction in progress
\* ---------------------------------------------------------------------------

polylineInProgress == polylinePoints # <<>>

dimensionInProgress ==
  \/ dimensionStart # None
  \/ dimensionSecondPoint # None
  \/ dimensionLinePosition # None

dragInProgress == startPoint # None

\* C30: at most one construction is in progress: of the active polyline
\* points, the dimension fields and the start point of a drag, at most one is
\* set.
C30_OneConstruction ==
  /\ ~(polylineInProgress /\ dimensionInProgress)
  /\ ~(polylineInProgress /\ dragInProgress)
  /\ ~(dimensionInProgress /\ dragInProgress)

\* ---------------------------------------------------------------------------
\* Claims about what a tool switch and a clear leave behind
\* ---------------------------------------------------------------------------

\* setTool(tool) is called with a tool other than the current one.
SwitchesTool == \E tool \in Tools : tool # currentTool /\ setTool(tool)

\* C31: after setTool has switched to a different tool, the active polyline
\* points are empty, every dimension field is absent and the start point of
\* a drag is absent.
C31_ToolSwitchClears ==
  [][ SwitchesTool =>
        (~polylineInProgress' /\ ~dimensionInProgress' /\ ~dragInProgress') ]_vars

\* C32: the clear action (Ctrl+Delete, or the cad-clear-canvas event, both
\* of which run clearCanvas) leaves the scene empty, the active polyline
\* points empty, every dimension field absent and the start point of a drag
\* absent, in whatever state it is invoked.
C32_ClearEmptiesAll ==
  [][ handleKeyDown("Delete", TRUE) =>
        (vectorObjects' = <<>> /\ AllClear') ]_vars

\* ---------------------------------------------------------------------------
\* Claims about the order of the snap categories
\* ---------------------------------------------------------------------------

\* C33: while grid snap is enabled, no cursor position resolves to a
\* midpoint, center, corner or line snap, and a cursor that does not resolve
\* to an endpoint (the case of C7) resolves to the nearest grid intersection
\* with kind grid, also when it already lies on a grid intersection.
C33_GridAlwaysMatches ==
  (snapOut # None /\ snapToGrid) =>
     /\ snapOut[1].type \notin
          {Some("midpoint"), Some("center"), Some("corner"), Some("line")}
     /\ snapOut[1].type # Some("endpoint") =>
          /\ snapOut[1].type = Some("grid")
          /\ snapOut[1].position =
               snapToTransformedGrid(snapIn, gridSize, panOffset, zoomLevel)

\* ---------------------------------------------------------------------------
\* Claims about the snap lattice and the grid drawn
\* ---------------------------------------------------------------------------

\* Math.floor, Math.ceil
MathFloor(a) == a.n \div a.d
MathCeil(a) == 0 - ((0 - a.n) \div a.d)

\* drawTransformedGrid(...): the screen coordinates, along one axis, of the
\* grid lines it strokes. The lines stand at the world multiples of the grid
\* size between the edges of the visible area, and a line is stroked when
\* its screen coordinate lies within the canvas.
gridLinesDrawn(size, offset, zoom, extent) ==
  LET worldLow == Over(Minus(Num(0), offset), zoom)
      worldHigh == Over(Minus(Num(extent), offset), zoom)
      first == MathFloor(Over(worldLow, Num(size)))
      last == MathCeil(Over(worldHigh, Num(size)))
      screenOf(k) == Plus(Times(Num(k * size), zoom), offset)
  IN  { screenOf(k) : k \in { j \in first..last :
                                /\ LessEq(Num(0), screenOf(j))
                                /\ LessEq(screenOf(j), Num(extent)) } }

\* C34: whatever the pan offset and the zoom level, a position returned by
\* grid snap lies on an intersection of the grid lines that the redraw
\* draws: on the screen it stands on a vertical and on a horizontal grid line.
C34_SnapOnDrawnGrid ==
  (snapOut # None /\ snapToGrid /\ snapOut[1].type = Some("grid")) =>
     LET at == worldToScreen(snapOut[1].position)
     IN  /\ at.x \in gridLinesDrawn(gridSize, panOffset.x, zoomLevel, canvasWidth)
         /\ at.y \in gridLinesDrawn(gridSize, panOffset.y, zoomLevel, canvasHeight)

\* The first of the points that lies within the tolerance of the cursor last
\* resolved, in the order of the sequence.
firstWithinTolerance(points) ==
  LET near == { k \in DOMAIN points :
                  WithinTolerance(snapIn, points[k], snapTolerance) }
  IN  IF near = {} THEN None
      ELSE Some(points[CHOOSE k \in near : \A j \in near : k <= j])

\* The first of the lines that accepts the cursor last resolved, as the point
\* of the line it is moved to.
firstLineAccepting(lines) ==
  LET hit(k) == snapToLine(snapIn, lines[k].start, lines[k].end, snapTolerance)
      accepting == { k \in DOMAIN lines : hit(k) # None }
  IN  IF accepting = {} THEN None
      ELSE hit(CHOOSE k \in accepting : \A j \in accepting : k <= j)

\* The snap categories below the grid, in the order of their priority, each
\* with the setting that enables it and the candidate it offers.
categoriesInOrder ==
  LET all == getAllSnapPoints(vectorObjects)
  IN  << [kind |-> "endpoint", enabled |-> snapToPoints,
          match |-> firstWithinTolerance(endpointCandidates)],
         [kind |-> "midpoint", enabled |-> snapToPoints,
          match |-> firstWithinTolerance(all.midpoints)],
         [kind |-> "center", enabled |-> snapToPoints,
          match |-> firstWithinTolerance(all.centers)],
         [kind |-> "corner", enabled |-> snapToPoints,
          match |-> firstWithinTolerance(all.corners)],
         [kind |-> "line", enabled |-> snapToLines,
          match |-> firstLineAccepting(existingLines)] >>

\* C35: with grid snap disabled, the result of a resolution is that of the
\* first category, in the order endpoint, midpoint, center, corner, line,
\* that is enabled and has a candidate within tolerance (so the line category
\* decides only when no point category matched, and a disabled category never
\* decides); when no category matches, it is the raw cursor position with no
\* kind.
C35_CategoryOrder ==
  (snapOut # None /\ ~snapToGrid) =>
     LET categories == categoriesInOrder
         matching == { k \in DOMAIN categories :
                         categories[k].enabled /\ categories[k].match # None }
     IN  IF matching = {}
           THEN snapOut[1] = [position |-> snapIn, type |-> None]
           ELSE LET first == categories[CHOOSE k \in matching :
                                           \A j \in matching : k <= j]
                IN  snapOut[1] = [position |-> first.match[1],
                                  type |-> Some(first.kind)]

\* A cursor within tolerance of an endpoint and of a line, with both
\* categories enabled and grid snap disabled, has been resolved.
C35_Witness ==
  /\ snapOut # None /\ ~snapToGrid /\ snapToPoints /\ snapToLines
  /\ firstWithinTolerance(endpointCandidates) # None
  /\ firstLineAccepting(existingLines) # None
  /\ snapOut[1].type = Some("endpoint")
  /\ snapOut[1].position # snapIn

\* ---------------------------------------------------------------------------
\* Claims about the snap candidates
\* ---------------------------------------------------------------------------

\* C36: the vertices of every committed polyline are among the endpoint
\* candidates and its segments are among the line candidates, as they were
\* while the polyline was in progress.
C36_CommittedPolylineSnaps ==
  \A i \in DOMAIN vectorObjects :
    vectorObjects[i].type = "polyline" =>
      /\ Range(vectorObjects[i].points) \subseteq Range(endpointCandidates)
      /\ Range(polylineSegments(vectorObjects[i].points)) \subseteq Range(existingLines)

\* ---------------------------------------------------------------------------
\* SpecLineSnap: line snap on polylines in progress and on line objects,
\* zero-length segments included
\* ---------------------------------------------------------------------------

\* Bound: points of an enumerated polyline in progress.
MaxLinePoints == 3

\* Positions of polyline points. Two equal consecutive points make a
\* zero-length segment.
LineSnapPoints == { Pt(Num(10), Num(0)), Pt(Num(28), Num(0)), Pt(Num(28), Num(30)) }

\* No object, a line whose two clicks fell on one position, a line below the
\* cursors.
LineSnapScenes ==
  { <<>>, << LineObj(20, 20, 20, 20) >>, << LineObj(0, 18, 50, 18) >> }

InitLineSnap ==
  /\ HistoryEmpty
  /\ currentTool = "polyline"
  /\ vectorObjects \in LineSnapScenes
  /\ polylinePoints \in UNION { [1..n -> LineSnapPoints] : n \in 0..MaxLinePoints }
  /\ isDrawing = FALSE
  /\ dimensionStart = None
  /\ dimensionSecondPoint = None
  /\ dimensionLinePosition = None
  /\ gridSize = 20
  /\ snapToGrid = FALSE
  /\ snapToPoints = FALSE
  /\ snapToLines = TRUE
  /\ snapTolerance = 10
  /\ lineColor = "#000000"
  /\ lineWidth = 2
  /\ ViewDefault
  /\ ComponentIdle /\ PointerIdle /\ ProbeIdle /\ RenderIdle
  /\ lastOp = "init"

SpecLineSnap == InitLineSnap /\ [][NextSnap]_vars

\* A number the arithmetic has defined: a fraction with a positive denominator.
isNumber(a) == a.d > 0

zeroLength(line) == line.start = line.end

\* The point lies on the segment: on the line through its ends, and between
\* them.
onSegment(point, line) ==
  LET ux == Minus(line.end.x, line.start.x)
      uy == Minus(line.end.y, line.start.y)
      vx == Minus(point.x, line.start.x)
      vy == Minus(point.y, line.start.y)
      along == Plus(Times(vx, ux), Times(vy, uy))
  IN  /\ Minus(Times(vx, uy), Times(vy, ux)) = Num(0)
      /\ LessEq(Num(0), along)
      /\ LessEq(along, Plus(Times(ux, ux), Times(uy, uy)))

\* C37: line snap gives a result for every cursor and every sequence of
\* segments; a zero-length segment is never accepted and does not keep the
\* segments after it from being tried; the result is a point of the first
\* segment, in iteration order, that accepts the cursor, it lies on that
\* segment, its coordinates are numbers and it is within tolerance of the
\* cursor; when no segment accepts, there is no line snap.
C37_LineSnapTotal ==
  (snapOut # None /\ ~snapToGrid /\ ~snapToPoints /\ snapToLines) =>
     LET lines == existingLines
         accepts(k) == snapToLine(snapIn, lines[k].start, lines[k].end,
                                  snapTolerance) # None
         accepting == { k \in DOMAIN lines : accepts(k) }
     IN  /\ \A k \in DOMAIN lines : zeroLength(lines[k]) => ~accepts(k)
         /\ IF accepting = {}
              THEN snapOut[1] = [position |-> snapIn, type |-> None]
              ELSE LET first == CHOOSE k \in accepting : \A j \in accepting : k <= j
                   IN  /\ snapOut[1].type = Some("line")
                       /\ isNumber(snapOut[1].position.x)
                       /\ isNumber(snapOut[1].position.y)
                       /\ onSegment(snapOut[1].position, lines[first])
                       /\ snapOut[1].position =
                            snapToLine(snapIn, lines[first].start, lines[first].end,
                                       snapTolerance)[1]
                       /\ WithinTolerance(snapIn, snapOut[1].position, snapTolerance)

\* A cursor has been moved onto the end of a segment that it lies beyond,
\* after a zero-length segment was passed over.
C37_Witness ==
  /\ snapOut # None /\ ~snapToGrid /\ ~snapToPoints /\ snapToLines
  /\ Len(existingLines) >= 2
  /\ zeroLength(existingLines[1])
  /\ ~zeroLength(existingLines[2])
  /\ snapOut[1].type = Some("line")
  /\ snapOut[1].position = existingLines[2].end
  /\ snapOut[1].position # snapIn

\* ---------------------------------------------------------------------------
\* Claims about the circle tool
\* ---------------------------------------------------------------------------

\* C38: with the circle tool, a start point recorded and the radius prompt
\* pending, submitting a positive radius r in inches appends exactly one
\* circle centred at the start point with radius r * 96, clears the start
\* point and closes the prompt.
C38_CircleByPrompt ==
  [][ \A text \in InputTexts :
        (/\ submitCommand(text)
         /\ isPositive(text)
         /\ currentTool = "circle"
         /\ startPoint # None
         /\ currentCommand = Some("radius")
         /\ commandCallback = Some([kind |-> "radius"])) =>
           /\ vectorObjects' =
                Append(vectorObjects,
                       [type |-> "circle",
                        x |-> startPoint[1].x, y |-> startPoint[1].y,
                        radius |-> Times(parseFloat(text)[1], Num(96)),
                        color |-> lineColor, lineWidth |-> lineWidth,
                        filled |-> FALSE])
           /\ startPoint' = None
           /\ currentCommand' = None
           /\ commandCallback' = None ]_vars

\* A radius of two inches has been submitted with the circle tool: the scene
\* ends with a circle of radius 192 and the prompt is closed.
C38_Witness ==
  /\ lastOp = "submitCommand"
  /\ currentTool = "circle"
  /\ vectorObjects # <<>>
  /\ vectorObjects[Len(vectorObjects)].type = "circle"
  /\ vectorObjects[Len(vectorObjects)].radius = Num(192)
  /\ startPoint = None
  /\ currentCommand = None

\* ---------------------------------------------------------------------------
\* SpecInput: the rectangle and circle tools with any text typed at the
\* command line
\* ---------------------------------------------------------------------------

\* Texts typed at the command line, one of them not a number.
TypedTexts == InputTexts \cup {"abc"}

InputSubmit ==
  \E text \in TypedTexts :
    WithinBounds /\ submitCommand(text) /\ UNCHANGED <<trace, pointerVars, renderVars>>

NextInput ==
  \/ PromptToolSelected
  \/ MouseDown
  \/ MouseUp
  \/ Click
  \/ InputSubmit
  \/ PromptCancel

SpecInput == Init /\ [][NextInput]_vars

\* The value is a number, and a positive one.
positiveNumber(value) == DOMAIN value = {"n", "d"} /\ value.n > 0 /\ value.d > 0

\* C39: every circle in the scene has a positive number as its radius and
\* every rectangle positive numbers as its width and height, whatever was
\* typed at the prompts.
C39_PositiveSizes ==
  \A i \in DOMAIN vectorObjects :
    /\ vectorObjects[i].type = "circle" => positiveNumber(vectorObjects[i].radius)
    /\ vectorObjects[i].type = "rectangle" =>
         /\ positiveNumber(vectorObjects[i].width)
         /\ positiveNumber(vectorObjects[i].height)

\* ---------------------------------------------------------------------------
\* SpecMount: the keyboard after onMounted, with or without a 2D context
\*
\* Without a context every ctx.* call of the canvas utilities throws a
\* TypeError, which the try/catch around it turns into a showErrorDialog.
\* ---------------------------------------------------------------------------

\* Bound: errors shown before the keys stop being followed.
MaxErrors == 3

\* cadStore.showErrorDialog(message), called this many times.
showErrorDialog(times) ==
  /\ errorsShown' = errorsShown + times
  /\ UNCHANGED <<canvas, savedImage, ctx>>

\* onMounted: with the two canvases and their contexts, the state of Init;
\* without them it logs to the console and returns before it draws, saves a
\* snapshot or shows anything.
InitMount ==
  /\ SceneEmpty /\ ConfigDefault /\ ViewDefault /\ ComponentIdle
  /\ ctx \in {None, Some("2d")}
  /\ IF ctx = None
       THEN HistoryEmpty /\ canvas = <<>>
       ELSE /\ history = <<1>>
            /\ historyIndex = 0
            /\ snapCount = 1
            /\ ret = None
            /\ discards = 0
            /\ trace = <<>>
            /\ canvas = redrawCanvas
  /\ savedImage = None
  /\ errorsShown = 0
  /\ PointerIdle
  /\ snapIn = Pt(Num(0), Num(0))
  /\ snapOut = None
  /\ snapPrev = None
  /\ MapIdle
  /\ lastOp = "init"

\* A handler that changes nothing but the errors shown.
onlyReports(times) ==
  /\ showErrorDialog(times)
  /\ lastOp' = "event"
  /\ UNCHANGED <<histVars, sceneVars, configVars, viewVars, compVars, probeVars>>

\* handleKeyDown(event) while ctx is null. Ctrl+Delete: clearCanvas throws at
\* its first statement and reports once, the store is not reset. F5:
\* redrawCanvas and saveState each catch their own error and report it. The
\* watchers redraw only `if (ctx)`, so a tool shortcut reports nothing.
\* Ctrl+Z and Ctrl+Y find no snapshot to restore.
handleKeyDownWithoutContext(key, ctrlKey) ==
  LET k == toLowerCase(key)
  IN  IF ctrlKey /\ k \in {"z", "y"}
        THEN handleKeyDown(key, ctrlKey) /\ UNCHANGED renderVars
      ELSE IF ctrlKey /\ k = "delete" THEN onlyReports(1)
      ELSE IF k = "f5" THEN onlyReports(2)
      ELSE handleKeyDown(key, ctrlKey) /\ UNCHANGED renderVars

MountKeys == {"v", "p", "l", "r", "c", "d", "s", "F5", "Delete", "z", "y"}

MountKeyDown ==
  \E key \in MountKeys :
    /\ errorsShown < MaxErrors
    /\ snapCount < MaxSnapshots
    /\ IF ctx = None
         THEN handleKeyDownWithoutContext(key, key \in {"Delete", "z", "y"})
         ELSE paintedHandleKeyDown(key, key \in {"Delete", "z", "y"})
    /\ UNCHANGED pointerVars

NextMount == MountKeyDown

SpecMount == InitMount /\ [][NextMount]_vars

\* C40: when onMounted found no canvas or no 2D context, the failure has
\* been shown exactly once by showErrorDialog, and no key pressed later
\* shows a further error.
C40_MountFailureShownOnce ==
  ctx = None => errorsShown = 1
====
